---- MODULE Spec2Model ----
(***************************************************************************)
(* Message ingestion, deduplication and mode-dispatch pipeline of the Ava  *)
(* WhatsApp bridge: data-storage.js (chats.json / state.json helpers),     *)
(* ai.js (getAIReply) and server.js (WebSocket 'send' handler, provider    *)
(* onMessage handler, periodic sent-message sync, mode and delete routes). *)
(*                                                                         *)
(* Every async handler is a process; one action per stretch of code        *)
(* between two awaits whose order against other handlers is observable.    *)
(* Texts and ids are sequences of one-character strings so that trim,      *)
(* length, includes and split are computed as the code computes them.      *)
(***************************************************************************)
EXTENDS Integers, Sequences, FiniteSets, TLC

(***************************************************************************)
(* Bounds of the exploration.                                              *)
(***************************************************************************)
MaxOps == 2
MaxTick == 1
TickMs == 4500
MaxPhone == 1

(***************************************************************************)
(* Program constants.                                                      *)
(***************************************************************************)
DedupWindowMs == 8000
HOURS_3 == 10800000

Handlers == {"h1", "h2"}
Jids == {"j1", "j2"}
Modes == {"A", "B", "C"}

(***************************************************************************)
(* Text helpers (String.prototype.trim / includes / toLowerCase).          *)
(***************************************************************************)
IsSpace(c) == c = " "

RECURSIVE TrimLeft(_)
TrimLeft(s) == IF s = <<>> THEN <<>>
               ELSE IF IsSpace(Head(s)) THEN TrimLeft(Tail(s)) ELSE s

RECURSIVE TrimRight(_)
TrimRight(s) == IF s = <<>> THEN <<>>
                ELSE IF IsSpace(s[Len(s)]) THEN TrimRight(SubSeq(s, 1, Len(s) - 1)) ELSE s

Trim(s) == TrimRight(TrimLeft(s))

Includes(s, sub) ==
    \E i \in 1..(Len(s) + 1) :
        /\ i + Len(sub) - 1 <= Len(s)
        /\ SubSeq(s, i, i + Len(sub) - 1) = sub

LowerChar(c) == CASE c = "H" -> "h"
                  [] c = "I" -> "i"
                  [] c = "O" -> "o"
                  [] OTHER -> c

ToLowerCase(s) == [i \in 1..Len(s) |-> LowerChar(s[i])]

(***************************************************************************)
(* The texts the environment supplies.                                     *)
(***************************************************************************)
TxtEmpty == <<>>
TxtHiAll == <<"h","i"," ","a","l","l">>
TxtOk == <<"o","k">>
RwOk == <<"H","i"," ","a","l","l",".">>
RwEdge == <<"H","i",","," ","a","l","l","!","!">>
RwLong == <<"H","i"," ","a","l","l","!","!","!","!">>
RwFiller == <<"H","e","r","e"," ","i","s">>
RwPadded == <<" ","o","k"," ">>
MediaB64 == <<"Q","U","J","D">>
MediaErrorText ==
    <<"[","E","r","r","o","r"," ","p","r","o","c","e","s","s","i","n","g"," ","m","e","d","i","a","]">>

SendTexts == {TxtEmpty, TxtHiAll}
LlmOutputs == {TxtEmpty, TxtHiAll, RwOk, RwEdge, RwLong, RwFiller, RwPadded}
LlmFailed == <<"#","f","a","i","l">>

(***************************************************************************)
(* Ids.  Client ids are chosen by the viewer (`client_<n>`), provider ids  *)
(* by the provider; `ai_rewrite_<n>`, `ai_<n>` and `file_<n>` are built by *)
(* the server from Date.now() and Math.random(), modelled by a counter.    *)
(***************************************************************************)
Digit(n) == CASE n = 0 -> "0" [] n = 1 -> "1" [] n = 2 -> "2" [] n = 3 -> "3"
              [] n = 4 -> "4" [] n = 5 -> "5" [] n = 6 -> "6" [] n = 7 -> "7"
              [] n = 8 -> "8" [] OTHER -> "9"

NoId == <<>>
ClientIds == { <<"c","_","5","_","a">>, <<"c","_","6","_","b">> }
ProviderIds == { <<"w","_","j","_","1">>, <<"w","_","j","_","2">> }
AiRewriteId(n) == <<"a","_","r","_",Digit(n)>>
AiReplyId(n) == <<"a","_",Digit(n),"_","y">>
FileId(n) == <<"f","_",Digit(n),"_","z">>
EchoId(n) == <<"t","_","j","_",Digit(n)>>

(***************************************************************************)
(* State.                                                                  *)
(*   chatsFile  contents of chats.json: conversation -> list of messages   *)
(*   stateFile  contents of state.json: chatModes and lastChatTime         *)
(*   provider   messages of this account in the provider's history         *)
(*   pushed     push events sent to the viewers, in order                  *)
(*   hs         the running handlers: position and local variables         *)
(*   now        Date.now() in ms                                           *)
(*   lastSentSyncByChat  the periodic sync's per-conversation mark (ms)     *)
(*   lastSet    history: the mode of the last completed setChatMode of     *)
(*              each conversation ("unset" when there was none)            *)
(***************************************************************************)
VARIABLES chatsFile, stateFile, provider, pushed, hs, now, nextId, ops, phoneSends,
          lastSentSyncByChat, lastSet, envFile

vars == <<chatsFile, stateFile, provider, pushed, hs, now, nextId, ops, phoneSends,
          lastSentSyncByChat, lastSet, envFile>>

Msg(id, subType, content, timestamp, direction, orig, rewrite) ==
    [id |-> id, subType |-> subType, content |-> content, timestamp |-> timestamp,
     direction |-> direction, isOriginalInSemiAI |-> orig, isAIRewrite |-> rewrite]

NoMsg == Msg(NoId, "", <<>>, 0, "", FALSE, FALSE)

EmptyChats == [j \in Jids |-> <<>>]
\* readState's default for aiInstruction ("You are a helpful and friendly assistant.")
InstructionDefault == <<"h","e","l","p","f","u","l">>

DefaultState == [chatModes |-> [j \in Jids |-> "unset"], lastChatTime |-> [j \in Jids |-> -1],
                 aiInstruction |-> InstructionDefault]

NoLlm == <<"#","n","o","n","e">>

\* Local variables of one handler invocation.  fx is a history of the side
\* effects it performed: <<candidate, effect, gate>> with gate the answer of
\* addMessageToChat for that candidate at the time ("none" before the call).
\* A provider event: id, chat (the conversation toJidPart resolves), fromMe,
\* type, body, quoted (quotedMsg.body, empty when nothing is quoted) and
\* filtered (group / status / channel / broadcast origin).
Event(id, chat, fromMe, type, body, quoted, filtered) ==
    [id |-> id, chat |-> chat, fromMe |-> fromMe, type |-> type, body |-> body,
     quoted |-> quoted, filtered |-> filtered]

NoEvent == Event(NoId, "j1", FALSE, "", <<>>, <<>>, FALSE)

Idle == [pc |-> "idle", jid |-> "j1", msg |-> NoMsg, snap |-> EmptyChats, ev |-> NoEvent,
         st |-> DefaultState, mode |-> "A", orig |-> <<>>, final |-> <<>>,
         llm |-> NoLlm, inserted |-> FALSE, inserted2 |-> FALSE, intro |-> FALSE,
         sent |-> NoLlm, fx |-> {}, arg |-> NoId, queue |-> <<>>, ci |-> 0,
         env |-> <<>>, aiTraining |-> <<>>, aiSchedule |-> <<>>, instruction |-> <<>>,
         synced |-> 0, refreshed |-> <<>>, referenced |-> <<>>]

(***************************************************************************)
(* data-storage.js: the Deduplication Gate, addMessageToChat.              *)
(***************************************************************************)
SubTypeOrChat(s) == IF s = "" THEN "chat" ELSE s
TsValid(ts) == ts >= 0
Abs(x) == IF x < 0 THEN -x ELSE x

HasId(list, id) == \E i \in 1..Len(list) : list[i].id = id

\* Variants of the gate with one rule weakened.
duplicateByIdNever(list, message) == FALSE

duplicateByContentSeconds(list, message) ==
    /\ Trim(message.content) # <<>>
    /\ \E i \in 1..Len(list) :
         /\ Trim(list[i].content) = Trim(message.content)
         /\ list[i].direction = message.direction
         /\ list[i].subType = message.subType
         /\ Abs(list[i].timestamp - message.timestamp) <= 8

duplicateByContentStrict(list, message) ==
    /\ Trim(message.content) # <<>>
    /\ TsValid(message.timestamp)
    /\ \E i \in 1..Len(list) :
         /\ Trim(list[i].content) = Trim(message.content)
         /\ TsValid(list[i].timestamp)
         /\ list[i].direction = message.direction
         /\ SubTypeOrChat(list[i].subType) = SubTypeOrChat(message.subType)
         /\ Abs(list[i].timestamp - message.timestamp) < DedupWindowMs

acceptsContentOnly(list, message) ==
    \A i \in 1..Len(list) :
        \/ Trim(list[i].content) # Trim(message.content)
        \/ Trim(message.content) = <<>>
        \/ list[i].direction # message.direction
        \/ list[i].subType # message.subType
        \/ Abs(list[i].timestamp - message.timestamp) > 8000

duplicateByContent(list, message) ==
    LET msgContent == Trim(message.content)
    IN /\ msgContent # <<>>
       /\ TsValid(message.timestamp)
       /\ \E i \in 1..Len(list) :
            LET m == list[i]
                existingContent == Trim(m.content)
            IN /\ existingContent # <<>>
               /\ TsValid(m.timestamp)
               /\ m.direction = message.direction
               /\ SubTypeOrChat(m.subType) = SubTypeOrChat(message.subType)
               /\ existingContent = msgContent
               /\ Abs(m.timestamp - message.timestamp) <= DedupWindowMs

duplicateById(list, message) == message.id # NoId /\ HasId(list, message.id)

\* TRUE iff addMessageToChat returns true for `message` on the list it read.
accepts(list, message) ==
    /\ ~duplicateById(list, message)
    /\ ~duplicateByContent(list, message)

\* The store addMessageToChat writes back (writeChats of the whole object read).
addMessageToChat(chats, jid, message) ==
    IF accepts(chats[jid], message)
    THEN [chats EXCEPT ![jid] = Append(@, message)]
    ELSE chats

(***************************************************************************)
(* ai.js: getAIReply.  `raw` is the completion the LLM returned; the       *)
(* result is trimmed and cut to 25 words.  A failed or timed-out call      *)
(* throws, which callers see as LlmFailed.                                 *)
(***************************************************************************)
WordLimit == 25

RECURSIVE SplitWords(_, _, _)
\* s.split(/\s+/) for a trimmed s: acc is the words so far, cur the word being read.
SplitWords(s, acc, cur) ==
    IF s = <<>> THEN Append(acc, cur)
    ELSE IF IsSpace(Head(s))
         THEN SplitWords(TrimLeft(s), Append(acc, cur), <<>>)
         ELSE SplitWords(Tail(s), acc, Append(cur, Head(s)))

RECURSIVE JoinWords(_)
JoinWords(ws) == IF ws = <<>> THEN <<>>
                 ELSE IF Len(ws) = 1 THEN ws[1]
                 ELSE ws[1] \o <<" ">> \o JoinWords(Tail(ws))

getAIReply(raw) ==
    LET reply == Trim(raw)
        words == SplitWords(reply, <<>>, <<>>)
    IN IF Len(words) > WordLimit
       THEN JoinWords(SubSeq(words, 1, WordLimit)) \o <<".",".",".">>
       ELSE reply

(***************************************************************************)
(* server.js, ws 'send' handler: acceptance of the Semi-AI rewrite.        *)
(***************************************************************************)
FillerHappy == <<"i","'","d"," ","b","e"," ","h","a","p","p","y">>
FillerHelp == <<"i"," ","c","a","n"," ","h","e","l","p">>
FillerHereIs == <<"h","e","r","e"," ","i","s">>

\* Variant of the acceptance test without the length limit.
rewriteAcceptedAnyLength(originalMessage, rewritten) ==
    /\ Trim(rewritten) # <<>>
    /\ \A phrase \in {FillerHappy, FillerHelp, FillerHereIs} :
         ~Includes(ToLowerCase(rewritten), phrase)

rewriteAccepted(originalMessage, rewritten) ==
    /\ Trim(rewritten) # <<>>
    /\ 2 * Len(Trim(rewritten)) <= 3 * Len(originalMessage)
    /\ ~Includes(ToLowerCase(rewritten), FillerHappy)
    /\ ~Includes(ToLowerCase(rewritten), FillerHelp)
    /\ ~Includes(ToLowerCase(rewritten), FillerHereIs)

\* finalMessage after the rewrite block; outcome is the LLM completion or LlmFailed.
finalMessage(originalMessage, outcome) ==
    IF outcome # LlmFailed /\ rewriteAccepted(originalMessage, getAIReply(outcome))
    THEN Trim(getAIReply(outcome))
    ELSE originalMessage

(***************************************************************************)
(* state.json helpers.                                                     *)
(***************************************************************************)
getChatMode(state, jid) ==
    IF state.chatModes[jid] = "unset" THEN "A" ELSE state.chatModes[jid]

setChatMode(state, jid, mode) == [state EXCEPT !.chatModes[jid] = mode]

(***************************************************************************)
(* Push events and provider history.                                       *)
(***************************************************************************)
PushEvent(from, m, id) ==
    [from |-> from, subType |-> m.subType, content |-> m.content,
     timestamp |-> m.timestamp, direction |-> m.direction, id |-> id,
     isOriginalInSemiAI |-> m.isOriginalInSemiAI, isAIRewrite |-> m.isAIRewrite]

ProviderMsg(id, t, body, type) == [id |-> id, t |-> t, body |-> body, type |-> type]

Set(h, r) == hs' = [hs EXCEPT ![h] = r]

\* A new invocation takes the first handler slot that is not running.
Running(h) == hs[h].pc \notin {"idle", "done"}
Free(h) == ~Running(h) /\ (h = "h2" => Running("h1"))

TypeOK ==
    /\ \A j \in Jids : \A i \in 1..Len(chatsFile[j]) :
          chatsFile[j][i].direction \in {"sent", "received"}
    /\ \A j \in Jids : stateFile.chatModes[j] \in Modes \cup {"unset"}
    /\ now \in 0..(MaxTick * TickMs)
    /\ ops \in 0..MaxOps

\* The process starts on an empty chats.json and on the state.json the
\* previous run left: persisted is the stored mode of conversation j1.
InitMode(persisted) ==
    /\ chatsFile = EmptyChats
    /\ stateFile = setChatMode(DefaultState, "j1", persisted)
    /\ provider = [j \in Jids |-> {}]
    /\ pushed = <<>>
    /\ hs = [h \in Handlers |-> Idle]
    /\ now = 0
    /\ nextId = 1
    /\ ops = 0
    /\ phoneSends = 0
    /\ lastSentSyncByChat = [j \in Jids |-> 0]
    /\ lastSet = stateFile.chatModes
    /\ envFile = <<>>

Init == InitMode("unset")
InitAssisted == InitMode("B")
InitAuto == InitMode("C")

\* Wall-clock time passes.
Tick ==
    /\ now + TickMs <= MaxTick * TickMs
    /\ now' = now + TickMs
    /\ UNCHANGED <<chatsFile, stateFile, provider, pushed, hs, nextId, ops, phoneSends, lastSentSyncByChat, lastSet, envFile>>

(***************************************************************************)
(* ws 'message' handler, msg.type = 'send' (server.js 991-1135).           *)
(***************************************************************************)
OriginalMessageForDb(id, text, ts, mode) ==
    Msg(id, "chat", text, ts, "sent", mode = "B", FALSE)

\* Entry up to `await getChatMode`; in modes A and C the original record is
\* built at once (timestamp = now), in mode B after the rewrite.
SendStart(h, to, id, text) ==
    /\ Free(h)
    /\ ops < MaxOps
    /\ ops' = ops + 1
    /\ LET mode == getChatMode(stateFile, to)
       IN Set(h, [Idle EXCEPT !.pc = IF mode = "B" THEN "s_llm" ELSE "s_acc_r",
                              !.jid = to, !.mode = mode, !.orig = text, !.final = text,
                              !.arg = id,
                              !.msg = OriginalMessageForDb(id, text, now, mode)])
    /\ UNCHANGED <<chatsFile, stateFile, provider, pushed, now, nextId, phoneSends, lastSentSyncByChat, lastSet, envFile>>

\* Semi-AI: getChatHistory, getStoredApiKey, getAIReply and the acceptance test.
SendRewrite(h, outcome) ==
    /\ hs[h].pc = "s_llm"
    /\ Set(h, [hs[h] EXCEPT !.pc = "s_acc_r", !.llm = outcome,
                            !.final = finalMessage(hs[h].orig, outcome),
                            !.fx = @ \cup {<<"original", "llm", "none">>},
                            !.msg = OriginalMessageForDb(hs[h].arg, hs[h].orig, now, "B")])
    /\ UNCHANGED <<chatsFile, stateFile, provider, pushed, now, nextId, ops, phoneSends, lastSentSyncByChat, lastSet, envFile>>

\* getContactDetails, then addMessageToChat reads chats.json.
SendStoreRead(h) ==
    /\ hs[h].pc = "s_acc_r"
    /\ Set(h, [hs[h] EXCEPT !.pc = "s_acc_w", !.snap = chatsFile])
    /\ UNCHANGED <<chatsFile, stateFile, provider, pushed, now, nextId, ops, phoneSends, lastSentSyncByChat, lastSet, envFile>>

Gate(b) == IF b THEN "accepted" ELSE "rejected"

\* addMessageToChat decides and writes; its result is discarded and the
\* original is broadcast to every open viewer.
SendStoreWrite(h) ==
    /\ hs[h].pc = "s_acc_w"
    /\ LET ok == accepts(hs[h].snap[hs[h].jid], hs[h].msg)
       IN /\ chatsFile' = IF ok THEN addMessageToChat(hs[h].snap, hs[h].jid, hs[h].msg)
                                ELSE chatsFile
          /\ pushed' = Append(pushed, PushEvent(hs[h].jid, hs[h].msg, hs[h].msg.id))
          /\ Set(h, [hs[h] EXCEPT !.pc = "s_send", !.inserted = ok, !.snap = EmptyChats,
                                  !.fx = @ \cup {<<"original", "push", Gate(ok)>>}])
    /\ UNCHANGED <<stateFile, provider, now, nextId, ops, phoneSends, lastSentSyncByChat, lastSet, envFile>>

AiMessageForDb(n, text, ts) == Msg(AiRewriteId(n), "chat", text, ts, "sent", FALSE, TRUE)

\* wppClient.sendText(testJid, finalMessage) over the jid formats; delivered
\* tells whether one attempt succeeded.  A delivered text enters the
\* provider's history.  The rewrite record is built when final # original.
SendProvider(h, delivered) ==
    /\ hs[h].pc = "s_send"
    /\ provider' = IF delivered
                   THEN [provider EXCEPT ![hs[h].jid] =
                            @ \cup {ProviderMsg(EchoId(nextId), now \div 1000, hs[h].final, "chat")}]
                   ELSE provider
    /\ nextId' = nextId + 1
    /\ Set(h, [hs[h] EXCEPT
                 !.pc = IF hs[h].final # hs[h].orig THEN "s_rw_r" ELSE "done",
                 !.sent = hs[h].final,
                 !.fx = @ \cup {<<"original", "send", Gate(hs[h].inserted)>>},
                 !.msg = IF hs[h].final # hs[h].orig
                         THEN AiMessageForDb(nextId, hs[h].final, now) ELSE @])
    /\ UNCHANGED <<chatsFile, stateFile, pushed, now, ops, phoneSends, lastSentSyncByChat, lastSet, envFile>>

SendRewriteRead(h) ==
    /\ hs[h].pc = "s_rw_r"
    /\ Set(h, [hs[h] EXCEPT !.pc = "s_rw_w", !.snap = chatsFile])
    /\ UNCHANGED <<chatsFile, stateFile, provider, pushed, now, nextId, ops, phoneSends, lastSentSyncByChat, lastSet, envFile>>

SendRewriteWrite(h) ==
    /\ hs[h].pc = "s_rw_w"
    /\ LET ok == accepts(hs[h].snap[hs[h].jid], hs[h].msg)
       IN /\ chatsFile' = IF ok THEN addMessageToChat(hs[h].snap, hs[h].jid, hs[h].msg)
                                ELSE chatsFile
          /\ pushed' = Append(pushed, PushEvent(hs[h].jid, hs[h].msg, hs[h].msg.id))
          /\ Set(h, [hs[h] EXCEPT !.pc = "done", !.inserted2 = ok, !.snap = EmptyChats,
                                  !.fx = @ \cup {<<"rewrite", "push", Gate(ok)>>}])
    /\ UNCHANGED <<stateFile, provider, now, nextId, ops, phoneSends, lastSentSyncByChat, lastSet, envFile>>

(***************************************************************************)
(* client.onMessage handler (server.js 1266-1934).                         *)
(***************************************************************************)
MediaTypes == {"image", "sticker", "video", "audio", "ptt", "document"}

Events ==
    UNION { { Event(id, chat, FALSE, "chat", TxtHiAll, <<>>, FALSE),
              Event(id, chat, TRUE, "chat", TxtHiAll, <<>>, FALSE),
              Event(id, chat, FALSE, "chat", TxtEmpty, <<>>, FALSE),
              Event(id, chat, FALSE, "ptt", TxtEmpty, <<>>, FALSE),
              Event(id, chat, FALSE, "chat", TxtHiAll, <<>>, TRUE),
              Event(id, chat, FALSE, "chat", TxtOk, TxtHiAll, FALSE) }
            : id \in ProviderIds, chat \in {"j1"} }

RECURSIVE Longest(_)
\* normalized.sort((a, b) => b.length - a.length)[0] over the non-empty candidates
Longest(cands) ==
    IF cands = <<>> THEN <<>>
    ELSE LET rest == Longest(Tail(cands))
         IN IF Len(Head(cands)) >= Len(rest) THEN Head(cands) ELSE rest

\* The candidates an event of the model carries: body and quotedMsg.body,
\* trimmed, the empty ones dropped.
extractTextContent(ev) ==
    Longest(SelectSeq(<<Trim(ev.body), Trim(ev.quoted)>>, LAMBDA v : v # <<>>))

\* messageForDb after the media or the text branch; NoMsg when the event is
\* dropped (filtered origin, or no text could be resolved).
ResolveInbound(ev, downloaded, ts) ==
    LET direction == IF ev.fromMe THEN "sent" ELSE "received"
    IN IF ev.filtered THEN NoMsg
       ELSE IF ev.type \in MediaTypes
       THEN IF downloaded
            THEN Msg(ev.id, IF ev.type = "ptt" THEN "audio" ELSE ev.type,
                     MediaB64, ts, direction, FALSE, FALSE)
            ELSE Msg(ev.id, "chat", MediaErrorText, ts, direction, FALSE, FALSE)
       ELSE IF extractTextContent(ev) = <<>> THEN NoMsg
       ELSE Msg(ev.id, "chat", extractTextContent(ev), ts, direction, FALSE, FALSE)

InboundStart(h, ev, downloaded) ==
    /\ Free(h)
    /\ ops < MaxOps
    /\ ops' = ops + 1
    /\ LET m == ResolveInbound(ev, downloaded, now)
       IN Set(h, IF m = NoMsg THEN [Idle EXCEPT !.pc = "done", !.ev = ev]
                 ELSE [Idle EXCEPT !.pc = "i_acc_r", !.jid = ev.chat, !.msg = m, !.arg = ev.id,
                                   !.ev = ev])
    /\ UNCHANGED <<chatsFile, stateFile, provider, pushed, now, nextId, phoneSends, lastSentSyncByChat, lastSet, envFile>>

InboundStoreRead(h) ==
    /\ hs[h].pc = "i_acc_r"
    /\ Set(h, [hs[h] EXCEPT !.pc = "i_acc_w", !.snap = chatsFile])
    /\ UNCHANGED <<chatsFile, stateFile, provider, pushed, now, nextId, ops, phoneSends, lastSentSyncByChat, lastSet, envFile>>

\* `if (!inserted) return;`
InboundStoreWrite(h) ==
    /\ hs[h].pc = "i_acc_w"
    /\ LET ok == accepts(hs[h].snap[hs[h].jid], hs[h].msg)
       IN /\ chatsFile' = IF ok THEN addMessageToChat(hs[h].snap, hs[h].jid, hs[h].msg)
                                ELSE chatsFile
          /\ Set(h, [hs[h] EXCEPT !.pc = IF ok THEN "i_bcast" ELSE "done",
                                  !.inserted = ok, !.snap = EmptyChats])
    /\ UNCHANGED <<stateFile, provider, pushed, now, nextId, ops, phoneSends, lastSentSyncByChat, lastSet, envFile>>

\* getContactDetails, broadcast (the payload carries no id), then
\* syncSentMessagesForChat, whose reference to lastSentSyncByChat is out of
\* scope: it throws inside its own try and the call returns 0.
InboundBroadcast(h) ==
    /\ hs[h].pc = "i_bcast"
    /\ pushed' = Append(pushed, PushEvent(hs[h].jid, hs[h].msg, NoId))
    /\ Set(h, [hs[h] EXCEPT !.pc = IF hs[h].msg.subType = "chat" THEN "i_mode" ELSE "done",
                            !.fx = @ \cup {<<"inbound", "push", Gate(hs[h].inserted)>>}])
    /\ UNCHANGED <<chatsFile, stateFile, provider, now, nextId, ops, phoneSends, lastSentSyncByChat, lastSet, envFile>>

\* getChatMode and the dispatch test.
InboundMode(h) ==
    /\ hs[h].pc = "i_mode"
    /\ LET chatMode == getChatMode(stateFile, hs[h].jid)
           hasContent == Len(Trim(hs[h].msg.content)) > 0
       IN Set(h, [hs[h] EXCEPT
                    !.mode = chatMode,
                    !.pc = IF chatMode = "C" /\ hs[h].msg.direction = "received" /\ hasContent
                           THEN "i_state" ELSE "done"])
    /\ UNCHANGED <<chatsFile, stateFile, provider, pushed, now, nextId, ops, phoneSends, lastSentSyncByChat, lastSet, envFile>>

shouldIntroduce(state, jid, t) ==
    \/ state.lastChatTime[jid] < 0
    \/ t - state.lastChatTime[jid] > HOURS_3

\* getAIInstruction, readState, shouldIntroduce.
InboundReadState(h) ==
    /\ hs[h].pc = "i_state"
    /\ Set(h, [hs[h] EXCEPT !.pc = "i_llm", !.st = stateFile,
                            !.intro = shouldIntroduce(stateFile, hs[h].jid, now)])
    /\ UNCHANGED <<chatsFile, stateFile, provider, pushed, now, nextId, ops, phoneSends, lastSentSyncByChat, lastSet, envFile>>

\* The self-introduction: greeting by the hour of the day, then the name.
Hours == {9, 20}
Greeting(hour) ==
    IF hour < 12 THEN <<"G","o","o","d"," ","m","o","r","n","i","n","g">>
    ELSE IF hour < 17 THEN <<"G","o","o","d"," ","a","f","t","e","r","n","o","o","n">>
    ELSE <<"G","o","o","d"," ","e","v","e","n","i","n","g">>

IntroTail ==
    <<"."," ","T","h","i","s"," ","i","s"," ","A","v","a",","," ","P","e","r","s","o","n","a","l"," ","A","s","s","i","s","t","a","n","t">>
    \o <<" ","t","o"," ","M","r","."," ","R","u","p","e","s","h"," ","K","u","m","a","r","."," ">>

StartsWith(s, prefix) == Len(s) >= Len(prefix) /\ SubSeq(s, 1, Len(prefix)) = prefix

withIntro(aiReplyText, hour) ==
    IF ~StartsWith(ToLowerCase(aiReplyText), <<"g","o","o","d">>) \/ ~Includes(aiReplyText, <<"A","v","a">>)
    THEN Greeting(hour) \o IntroTail \o aiReplyText
    ELSE aiReplyText

\* getAIReply; on success the introduction is prepended and the state read
\* before the call is written back with lastChatTime set.
InboundReply(h, outcome, hour) ==
    /\ hs[h].pc = "i_llm"
    /\ IF outcome = LlmFailed
       THEN /\ Set(h, [hs[h] EXCEPT !.pc = "done", !.llm = outcome,
                                    !.fx = @ \cup {<<"inbound", "llm", Gate(hs[h].inserted)>>}])
            /\ UNCHANGED stateFile
       ELSE /\ Set(h, [hs[h] EXCEPT
                         !.pc = "i_send", !.llm = outcome,
                         !.final = IF hs[h].intro THEN withIntro(getAIReply(outcome), hour)
                                   ELSE getAIReply(outcome),
                         !.fx = @ \cup {<<"inbound", "llm", Gate(hs[h].inserted)>>}])
            /\ stateFile' = IF hs[h].intro
                            THEN [hs[h].st EXCEPT !.lastChatTime[hs[h].jid] = now]
                            ELSE stateFile
    /\ UNCHANGED <<chatsFile, provider, pushed, now, nextId, ops, phoneSends, lastSentSyncByChat, lastSet, envFile>>

AiReplyForDb(n, text, ts) == Msg(AiReplyId(n), "chat", text, ts, "sent", FALSE, FALSE)

\* client.sendText(message.from, aiReplyText): a failure throws into the
\* handler's catch and nothing is stored or broadcast.
InboundSendReply(h, delivered) ==
    /\ hs[h].pc = "i_send"
    /\ nextId' = nextId + 1
    /\ provider' = IF delivered
                   THEN [provider EXCEPT ![hs[h].jid] =
                            @ \cup {ProviderMsg(EchoId(nextId), now \div 1000, hs[h].final, "chat")}]
                   ELSE provider
    /\ Set(h, [hs[h] EXCEPT
                 !.pc = IF delivered THEN "i_rp_r" ELSE "done",
                 !.sent = hs[h].final,
                 !.fx = @ \cup {<<"inbound", "send", Gate(hs[h].inserted)>>},
                 !.msg = IF delivered THEN AiReplyForDb(nextId, hs[h].final, now) ELSE @])
    /\ UNCHANGED <<chatsFile, stateFile, pushed, now, ops, phoneSends, lastSentSyncByChat, lastSet, envFile>>

InboundReplyRead(h) ==
    /\ hs[h].pc = "i_rp_r"
    /\ Set(h, [hs[h] EXCEPT !.pc = "i_rp_w", !.snap = chatsFile])
    /\ UNCHANGED <<chatsFile, stateFile, provider, pushed, now, nextId, ops, phoneSends, lastSentSyncByChat, lastSet, envFile>>

InboundReplyWrite(h) ==
    /\ hs[h].pc = "i_rp_w"
    /\ LET ok == accepts(hs[h].snap[hs[h].jid], hs[h].msg)
       IN /\ chatsFile' = IF ok THEN addMessageToChat(hs[h].snap, hs[h].jid, hs[h].msg)
                                ELSE chatsFile
          /\ pushed' = Append(pushed, PushEvent(hs[h].jid, hs[h].msg, hs[h].msg.id))
          /\ Set(h, [hs[h] EXCEPT !.pc = "done", !.inserted2 = ok, !.snap = EmptyChats,
                                  !.fx = @ \cup {<<"reply", "push", Gate(ok)>>}])
    /\ UNCHANGED <<stateFile, provider, now, nextId, ops, phoneSends, lastSentSyncByChat, lastSet, envFile>>

(***************************************************************************)
(* ws 'message' handler, msg.type = 'send-file' (server.js 1136-1237).     *)
(***************************************************************************)
FileSubTypes == {"image"}
FileCaption == <<"a",".","p","n","g">>

\* send*FromBase64: a failure throws into the catch and nothing is stored.
FileStart(h, to, subType, delivered) ==
    /\ Free(h)
    /\ ops < MaxOps
    /\ ops' = ops + 1
    /\ nextId' = nextId + 1
    /\ provider' = IF delivered
                   THEN [provider EXCEPT ![to] =
                            @ \cup {ProviderMsg(EchoId(nextId), now \div 1000, FileCaption, subType)}]
                   ELSE provider
    /\ Set(h, [Idle EXCEPT !.pc = IF delivered THEN "f_acc_r" ELSE "done",
                           !.jid = to, !.sent = MediaB64,
                           !.fx = {<<"file", "send", "none">>},
                           !.msg = IF delivered
                                   THEN Msg(FileId(nextId), subType, MediaB64, now, "sent", FALSE, FALSE)
                                   ELSE NoMsg])
    /\ UNCHANGED <<chatsFile, stateFile, pushed, now, phoneSends, lastSentSyncByChat, lastSet, envFile>>

FileStoreRead(h) ==
    /\ hs[h].pc = "f_acc_r"
    /\ Set(h, [hs[h] EXCEPT !.pc = "f_acc_w", !.snap = chatsFile])
    /\ UNCHANGED <<chatsFile, stateFile, provider, pushed, now, nextId, ops, phoneSends, lastSentSyncByChat, lastSet, envFile>>

FileStoreWrite(h) ==
    /\ hs[h].pc = "f_acc_w"
    /\ LET ok == accepts(hs[h].snap[hs[h].jid], hs[h].msg)
       IN /\ chatsFile' = IF ok THEN addMessageToChat(hs[h].snap, hs[h].jid, hs[h].msg)
                                ELSE chatsFile
          /\ pushed' = Append(pushed, PushEvent(hs[h].jid, hs[h].msg, hs[h].msg.id))
          /\ Set(h, [hs[h] EXCEPT !.pc = "done", !.inserted = ok, !.snap = EmptyChats,
                                  !.fx = @ \cup {<<"file", "push", Gate(ok)>>}])
    /\ UNCHANGED <<stateFile, provider, now, nextId, ops, phoneSends, lastSentSyncByChat, lastSet, envFile>>

(***************************************************************************)
(* POST /api/mode/:jid -> setChatMode: readState, then writeState.         *)
(***************************************************************************)
SetModeStart(h, jid, mode) ==
    /\ Free(h)
    /\ ops < MaxOps
    /\ ops' = ops + 1
    /\ Set(h, [Idle EXCEPT !.pc = "m_w", !.jid = jid, !.mode = mode, !.st = stateFile])
    /\ UNCHANGED <<chatsFile, stateFile, provider, pushed, now, nextId, phoneSends, lastSentSyncByChat, lastSet, envFile>>

SetModeWrite(h) ==
    /\ hs[h].pc = "m_w"
    /\ stateFile' = setChatMode(hs[h].st, hs[h].jid, hs[h].mode)
    /\ lastSet' = [lastSet EXCEPT ![hs[h].jid] = hs[h].mode]
    /\ Set(h, [hs[h] EXCEPT !.pc = "done", !.st = DefaultState])
    /\ UNCHANGED <<chatsFile, provider, pushed, now, nextId, ops, phoneSends, lastSentSyncByChat, envFile>>

(***************************************************************************)
(* DELETE /api/delete-message/:chatId/:messageId.                          *)
(***************************************************************************)
RECURSIVE SplitTail(_)
\* id.split('_').slice(1).join('_'): what follows the first underscore
SplitTail(id) == IF id = <<>> THEN <<>>
                 ELSE IF Head(id) = "_" THEN Tail(id) ELSE SplitTail(Tail(id))

KeepExact(m, messageId) == m.id # messageId

KeepPartial(m, messageId) ==
    /\ m.id # messageId
    /\ ~(Includes(m.id, SplitTail(messageId)) \/ Includes(messageId, SplitTail(m.id)))

deleteMessageFromChat(chats, chatId, messageId) ==
    [chats EXCEPT ![chatId] = SelectSeq(@, LAMBDA m : KeepExact(m, messageId))]

deleteMessageFromChatPartial(chats, chatId, messageId) ==
    [chats EXCEPT ![chatId] = SelectSeq(@, LAMBDA m : KeepPartial(m, messageId))]

DeleteIds == { <<"c","_","5","_","a">>, <<"w","_","j","_","1">>, <<"m","_","9","_","a">> }

DeleteStart(h, chatId, messageId) ==
    /\ Free(h)
    /\ ops < MaxOps
    /\ ops' = ops + 1
    /\ Set(h, [Idle EXCEPT !.pc = "d_w", !.jid = chatId, !.arg = messageId, !.snap = chatsFile])
    /\ UNCHANGED <<chatsFile, stateFile, provider, pushed, now, nextId, phoneSends, lastSentSyncByChat, lastSet, envFile>>

\* deleteMessageFromChat filters and writes when something was removed;
\* otherwise deleteMessageFromChatPartial reads the store again.
DeleteExactWrite(h) ==
    /\ hs[h].pc = "d_w"
    /\ LET after == deleteMessageFromChat(hs[h].snap, hs[h].jid, hs[h].arg)
           deleted == Len(after[hs[h].jid]) < Len(hs[h].snap[hs[h].jid])
       IN /\ chatsFile' = IF deleted THEN after ELSE chatsFile
          /\ Set(h, [hs[h] EXCEPT !.pc = IF deleted THEN "done" ELSE "d_p_r",
                                  !.inserted = deleted, !.snap = EmptyChats])
    /\ UNCHANGED <<stateFile, provider, pushed, now, nextId, ops, phoneSends, lastSentSyncByChat, lastSet, envFile>>

DeletePartialRead(h) ==
    /\ hs[h].pc = "d_p_r"
    /\ Set(h, [hs[h] EXCEPT !.pc = "d_p_w", !.snap = chatsFile])
    /\ UNCHANGED <<chatsFile, stateFile, provider, pushed, now, nextId, ops, phoneSends, lastSentSyncByChat, lastSet, envFile>>

DeletePartialWrite(h) ==
    /\ hs[h].pc = "d_p_w"
    /\ LET after == deleteMessageFromChatPartial(hs[h].snap, hs[h].jid, hs[h].arg)
           deleted == Len(after[hs[h].jid]) < Len(hs[h].snap[hs[h].jid])
       IN /\ chatsFile' = IF deleted THEN after ELSE chatsFile
          /\ Set(h, [hs[h] EXCEPT !.pc = "done", !.inserted = deleted, !.snap = EmptyChats])
    /\ UNCHANGED <<stateFile, provider, pushed, now, nextId, ops, phoneSends, lastSentSyncByChat, lastSet, envFile>>

(***************************************************************************)
(* Periodic sent-message sync (server.js 1940-2019), one run of the        *)
(* setInterval callback.  Nothing keeps a tick from starting a run while   *)
(* an earlier one is still awaiting.                                       *)
(***************************************************************************)
ChatOrder == <<"j1", "j2">>

RECURSIVE SortByT(_)
\* .sort((a, b) => a.t - b.t) of a set of provider messages
SortByT(S) ==
    IF S = {} THEN <<>>
    ELSE LET m == CHOOSE x \in S : \A y \in S : x.t <= y.t
         IN <<m>> \o SortByT(S \ {m})

newSent(messages, lastSync) == SortByT({m \in messages : m.t > lastSync \div 1000})

SentMessage(m) ==
    Msg(m.id, IF m.type = "ptt" THEN "audio" ELSE m.type, m.body, m.t * 1000, "sent", FALSE, FALSE)

\* After a chat is finished: the next chat of the run, or the end of the run.
SyncNext(r) ==
    IF r.ci < Len(ChatOrder)
    THEN [r EXCEPT !.pc = "y_fetch", !.ci = @ + 1, !.queue = <<>>, !.msg = NoMsg]
    ELSE [r EXCEPT !.pc = "done", !.queue = <<>>, !.msg = NoMsg]

\* After a message of the chat is finished: the next one, or the mark is set.
SyncPop(r) ==
    IF Len(r.queue) > 1
    THEN [r EXCEPT !.pc = "y_acc_r", !.queue = Tail(@), !.msg = SentMessage(r.queue[2])]
    ELSE SyncNext(r)

SyncStart(h) ==
    /\ Free(h)
    /\ ops < MaxOps
    /\ ops' = ops + 1
    /\ Set(h, [Idle EXCEPT !.pc = "y_fetch", !.ci = 1])
    /\ UNCHANGED <<chatsFile, stateFile, provider, pushed, now, nextId, phoneSends, lastSentSyncByChat, lastSet, envFile>>

\* getAllMessagesInChat and the newSent filter for chat ci.  Messages with
\* an empty body are skipped by the loop; a chat with new messages and none
\* to store only has its mark set.
SyncFetch(h) ==
    /\ hs[h].pc = "y_fetch"
    /\ LET jid == ChatOrder[hs[h].ci]
           fresh == newSent(provider[jid], lastSentSyncByChat[jid])
           todo == SelectSeq(fresh, LAMBDA m : m.body # <<>>)
       IN IF todo # <<>>
          THEN /\ Set(h, [hs[h] EXCEPT !.pc = "y_acc_r", !.jid = jid, !.queue = todo,
                                       !.msg = SentMessage(todo[1])])
               /\ UNCHANGED lastSentSyncByChat
          ELSE /\ Set(h, SyncNext([hs[h] EXCEPT !.jid = jid]))
               /\ lastSentSyncByChat' = IF fresh # <<>>
                                        THEN [lastSentSyncByChat EXCEPT ![jid] = now]
                                        ELSE lastSentSyncByChat
    /\ UNCHANGED <<chatsFile, stateFile, provider, pushed, now, nextId, ops, phoneSends, lastSet, envFile>>

SyncStoreRead(h) ==
    /\ hs[h].pc = "y_acc_r"
    /\ Set(h, [hs[h] EXCEPT !.pc = "y_acc_w", !.snap = chatsFile])
    /\ UNCHANGED <<chatsFile, stateFile, provider, pushed, now, nextId, ops, phoneSends, lastSentSyncByChat, lastSet, envFile>>

SyncStoreWrite(h) ==
    /\ hs[h].pc = "y_acc_w"
    /\ LET ok == accepts(hs[h].snap[hs[h].jid], hs[h].msg)
           r == [hs[h] EXCEPT !.inserted = ok, !.snap = EmptyChats]
       IN /\ chatsFile' = IF ok THEN addMessageToChat(hs[h].snap, hs[h].jid, hs[h].msg)
                                ELSE chatsFile
          /\ Set(h, IF ok THEN [r EXCEPT !.pc = "y_bcast"] ELSE SyncPop(r))
          /\ lastSentSyncByChat' = IF ~ok /\ Len(hs[h].queue) = 1
                                   THEN [lastSentSyncByChat EXCEPT ![hs[h].jid] = now]
                                   ELSE lastSentSyncByChat
    /\ UNCHANGED <<stateFile, provider, pushed, now, nextId, ops, phoneSends, lastSet, envFile>>

\* getContactDetails, then the broadcast (the payload carries no id).
SyncBroadcast(h) ==
    /\ hs[h].pc = "y_bcast"
    /\ pushed' = Append(pushed, PushEvent(hs[h].jid, hs[h].msg, NoId))
    /\ Set(h, SyncPop([hs[h] EXCEPT !.fx = @ \cup {<<"sync", "push", Gate(hs[h].inserted)>>}]))
    /\ lastSentSyncByChat' = IF Len(hs[h].queue) = 1
                             THEN [lastSentSyncByChat EXCEPT ![hs[h].jid] = now]
                             ELSE lastSentSyncByChat
    /\ UNCHANGED <<chatsFile, stateFile, provider, now, nextId, ops, phoneSends, lastSet, envFile>>

\* The account's owner sends a text from the primary device.
PhoneSend(jid, id, body) ==
    /\ phoneSends < MaxPhone
    /\ phoneSends' = phoneSends + 1
    /\ provider' = [provider EXCEPT ![jid] = @ \cup {ProviderMsg(id, now \div 1000, body, "chat")}]
    /\ UNCHANGED <<chatsFile, stateFile, pushed, hs, now, nextId, ops, lastSentSyncByChat, lastSet, envFile>>

(***************************************************************************)
(* The steps of each handler after its entry.                              *)
(***************************************************************************)
SendSteps(h) ==
    \/ SendStoreRead(h)
    \/ SendStoreWrite(h)
    \/ \E delivered \in BOOLEAN : SendProvider(h, delivered)

SendRewriteSteps(h) ==
    \/ SendRewriteRead(h)
    \/ SendRewriteWrite(h)

InboundSteps(h) ==
    \/ InboundStoreRead(h)
    \/ InboundStoreWrite(h)
    \/ InboundBroadcast(h)
    \/ InboundMode(h)

AutoReplySteps(h) ==
    \/ InboundReadState(h)
    \/ \E delivered \in BOOLEAN : InboundSendReply(h, delivered)
    \/ InboundReplyRead(h)
    \/ InboundReplyWrite(h)

FileSteps(h) ==
    \/ FileStoreRead(h)
    \/ FileStoreWrite(h)

DeleteSteps(h) ==
    \/ DeleteExactWrite(h)
    \/ DeletePartialRead(h)
    \/ DeletePartialWrite(h)

SyncSteps(h) ==
    \/ SyncFetch(h)
    \/ SyncStoreRead(h)
    \/ SyncStoreWrite(h)
    \/ SyncBroadcast(h)

(***************************************************************************)
(* POST /api/sync-contacts, step 5 (server.js 540-550): the store is read, *)
(* missing conversations get an empty list, and the store is written back. *)
(***************************************************************************)
SyncContactsRead(h) ==
    /\ Free(h)
    /\ ops < MaxOps
    /\ ops' = ops + 1
    /\ Set(h, [Idle EXCEPT !.pc = "c_w", !.snap = chatsFile])
    /\ UNCHANGED <<chatsFile, stateFile, provider, pushed, now, nextId, phoneSends, lastSentSyncByChat, lastSet, envFile>>

SyncContactsWrite(h) ==
    /\ hs[h].pc = "c_w"
    /\ chatsFile' = hs[h].snap
    /\ Set(h, [hs[h] EXCEPT !.pc = "done", !.snap = EmptyChats])
    /\ UNCHANGED <<stateFile, provider, pushed, now, nextId, ops, phoneSends, lastSentSyncByChat, lastSet, envFile>>

(***************************************************************************)
(* A caller of addMessageToChat, whichever handler it is: the call reads   *)
(* chats.json, awaits, then decides, appends and writes.                   *)
(***************************************************************************)
AddStart(h, jid, message) ==
    /\ Free(h)
    /\ ops < MaxOps
    /\ ops' = ops + 1
    /\ Set(h, [Idle EXCEPT !.pc = "a_w", !.jid = jid, !.msg = message, !.snap = chatsFile])
    /\ UNCHANGED <<chatsFile, stateFile, provider, pushed, now, nextId, phoneSends, lastSentSyncByChat, lastSet, envFile>>

AddWrite(h) ==
    /\ hs[h].pc = "a_w"
    /\ LET ok == accepts(hs[h].snap[hs[h].jid], hs[h].msg)
       IN /\ chatsFile' = IF ok THEN addMessageToChat(hs[h].snap, hs[h].jid, hs[h].msg)
                                ELSE chatsFile
          /\ Set(h, [hs[h] EXCEPT !.pc = "done", !.inserted = ok])
    /\ UNCHANGED <<stateFile, provider, pushed, now, nextId, ops, phoneSends, lastSentSyncByChat, lastSet, envFile>>

(***************************************************************************)
(* SpecGate: the Transcript Store under concurrent callers.  Candidates    *)
(* are the records the handlers build: text or media, sent or received,    *)
(* with a client or provider id and a timestamp.                           *)
(***************************************************************************)
GateIds == { <<"c","_","5","_","a">>, <<"w","_","j","_","1">> }
TxtHiAllPadded == <<"h","i"," ","a","l","l"," ">>

GateCandidates ==
    { Msg(id, "chat", TxtHiAll, ts, "sent", FALSE, FALSE) : id \in GateIds, ts \in {0, 9000} }
    \cup { Msg(<<"c","_","5","_","a">>, "chat", TxtHiAllPadded, 4500, "sent", FALSE, FALSE),
           Msg(<<"w","_","j","_","1">>, "chat", TxtHiAll, 4500, "received", FALSE, FALSE),
           Msg(<<"c","_","6","_","b">>, "image", TxtHiAll, 4500, "sent", FALSE, FALSE),
           Msg(<<"c","_","6","_","b">>, "chat", TxtEmpty, 0, "sent", FALSE, FALSE),
           Msg(<<"c","_","5","_","a">>, "chat", TxtEmpty, 4500, "sent", FALSE, FALSE) }

NextGate ==
    \E h \in Handlers :
        \/ \E message \in GateCandidates : AddStart(h, "j1", message)
        \/ AddStart(h, "j2", Msg(<<"c","_","5","_","a">>, "chat", TxtHiAll, 0, "sent", FALSE, FALSE))
        \/ AddWrite(h)
        \/ \E messageId \in DeleteIds : DeleteStart(h, "j1", messageId)
        \/ DeleteSteps(h)
        \/ SyncContactsRead(h)
        \/ SyncContactsWrite(h)

SpecGate == Init /\ [][NextGate]_vars

(***************************************************************************)
(* Spec: the whole pipeline on conversation j1, no mode stored yet.        *)
(***************************************************************************)
Next ==
    \/ Tick
    \/ \E h \in Handlers :
        \/ \E id \in ClientIds, text \in SendTexts : SendStart(h, "j1", id, text)
        \/ \E outcome \in {RwOk, LlmFailed} : SendRewrite(h, outcome)
        \/ SendSteps(h)
        \/ SendRewriteSteps(h)
        \/ \E ev \in Events, downloaded \in BOOLEAN : InboundStart(h, ev, downloaded)
        \/ InboundSteps(h)
        \/ \E outcome \in {RwOk, LlmFailed}, hour \in Hours : InboundReply(h, outcome, hour)
        \/ AutoReplySteps(h)
        \/ \E subType \in FileSubTypes, delivered \in BOOLEAN : FileStart(h, "j1", subType, delivered)
        \/ FileSteps(h)
        \/ \E mode \in Modes : SetModeStart(h, "j1", mode)
        \/ SetModeWrite(h)
        \/ \E messageId \in DeleteIds : DeleteStart(h, "j1", messageId)
        \/ DeleteSteps(h)
        \/ SyncStart(h)
        \/ SyncSteps(h)
    \/ \E id \in ProviderIds : PhoneSend("j1", id, TxtHiAll)

Spec == Init /\ [][Next]_vars

(***************************************************************************)
(* SpecAssisted: outbound text sends on a conversation stored as Semi-AI   *)
(* (mode B), with every shape of LLM completion, and the periodic sync.    *)
(***************************************************************************)
NextAssisted ==
    \/ Tick
    \/ \E h \in Handlers :
        \/ \E id \in ClientIds : SendStart(h, "j1", id, TxtHiAll)
        \/ \E outcome \in LlmOutputs \cup {LlmFailed} : SendRewrite(h, outcome)
        \/ SendSteps(h)
        \/ SendRewriteSteps(h)
        \/ SyncStart(h)
        \/ SyncSteps(h)

SpecAssisted == InitAssisted /\ [][NextAssisted]_vars

(***************************************************************************)
(* SpecRewrite: the send handler alone on a Semi-AI conversation, with     *)
(* every shape of LLM completion.                                          *)
(***************************************************************************)
RewriteOutcomes == {TxtEmpty, RwEdge, RwLong, RwFiller, RwPadded, LlmFailed}

NextRewrite ==
    \E h \in Handlers :
        \/ \E id \in ClientIds : SendStart(h, "j1", id, TxtHiAll)
        \/ \E outcome \in RewriteOutcomes : SendRewrite(h, outcome)
        \/ SendStoreRead(h)
        \/ SendStoreWrite(h)
        \/ SendProvider(h, TRUE)
        \/ SendRewriteSteps(h)

SpecRewrite == InitAssisted /\ [][NextRewrite]_vars

(***************************************************************************)
(* SpecAuto: inbound events on a conversation stored as Full-AI (mode C),  *)
(* interleaved with set-mode calls.                                        *)
(***************************************************************************)
NextAuto ==
    \/ Tick
    \/ \E h \in Handlers :
        \/ \E ev \in Events, downloaded \in BOOLEAN : InboundStart(h, ev, downloaded)
        \/ InboundSteps(h)
        \/ \E outcome \in {RwOk, LlmFailed}, hour \in Hours : InboundReply(h, outcome, hour)
        \/ AutoReplySteps(h)
        \/ \E mode \in Modes : SetModeStart(h, "j1", mode)
        \/ SetModeWrite(h)

SpecAuto == InitAuto /\ [][NextAuto]_vars

(***************************************************************************)
(* SpecModes: set-mode calls on both conversations and text sends on      *)
(* j1, no mode stored yet.                                                 *)
(***************************************************************************)
NextModes ==
    \E h \in Handlers :
        \/ \E jid \in Jids, mode \in Modes : SetModeStart(h, jid, mode)
        \/ SetModeWrite(h)
        \/ \E id \in ClientIds : SendStart(h, "j1", id, TxtHiAll)
        \/ \E outcome \in {RwOk, LlmFailed} : SendRewrite(h, outcome)
        \/ SendSteps(h)
        \/ SendRewriteSteps(h)

SpecModes == Init /\ [][NextModes]_vars

(***************************************************************************)
(* Properties.                                                             *)
(***************************************************************************)
StoredIds(jid) == { chatsFile[jid][i].id : i \in 1..Len(chatsFile[jid]) }

\* A stored record of conversation jid with this id, content and direction.
Records(jid, id, content, direction) ==
    { i \in 1..Len(chatsFile[jid]) :
        /\ chatsFile[jid][i].id = id
        /\ chatsFile[jid][i].content = content
        /\ chatsFile[jid][i].direction = direction }

NearDuplicates(a, b) ==
    /\ a.content = b.content
    /\ a.direction = b.direction
    /\ a.subType = b.subType
    /\ Abs(a.timestamp - b.timestamp) <= DedupWindowMs

\* C2 (as stated): no conversation holds two stored messages with the same
\* content, direction and kind whose timestamps are within 8 seconds.
C2_NoNearDuplicates ==
    \A j \in Jids : \A i, k \in 1..Len(chatsFile[j]) :
        i # k => ~NearDuplicates(chatsFile[j][i], chatsFile[j][k])

\* C2 (amended): no conversation holds two stored messages with the same
\* content that is not blank, the same direction and the same kind whose
\* timestamps are within 8 seconds.
C2_NoNearDuplicateTexts ==
    \A j \in Jids : \A i, k \in 1..Len(chatsFile[j]) :
        (i # k /\ Trim(chatsFile[j][i].content) # <<>>)
            => ~NearDuplicates(chatsFile[j][i], chatsFile[j][k])

\* A send with a fresh id refused because its text repeats a stored message
\* of the last 8 seconds.
C2_Witness ==
    \E h \in Handlers :
        /\ hs[h].pc = "s_send"
        /\ ~hs[h].inserted
        /\ hs[h].msg.id \notin StoredIds(hs[h].jid)
        /\ hs[h].msg.content = TxtHiAll
        /\ \E i \in 1..Len(chatsFile[hs[h].jid]) :
              NearDuplicates(chatsFile[hs[h].jid][i], hs[h].msg)

C4_RefusedCandidateHasNoEffect ==
    \A h \in Handlers : \A t \in hs[h].fx : t[3] # "rejected"

\* C5: getChatMode returns 'A' while no mode was set, and the mode of the
\* last completed setChatMode afterwards.
C5_ModePersists ==
    \A j \in Jids :
        getChatMode(stateFile, j) = (IF lastSet[j] = "unset" THEN "A" ELSE lastSet[j])

\* C6: the stored mode of a conversation changes only in the write of a
\* setChatMode call for that conversation.
C6_ModeChangesOnlyBySetMode ==
    [][\A j \in Jids :
         stateFile'.chatModes[j] # stateFile.chatModes[j]
         => \E h \in Handlers :
               hs[h].pc = "m_w" /\ hs[h].jid = j /\ hs'[h].pc = "done"]_vars

\* C7: a text send in mode A calls no LLM, hands the provider the user's
\* text, and leaves exactly one sent record with this send's id and text in
\* the store.
C7_ManualSend ==
    [][\A h \in Handlers :
         hs[h].mode = "A" =>
           /\ (hs[h].pc = "s_acc_w" /\ hs'[h].pc = "s_send")
                => Cardinality(Records(hs[h].jid, hs[h].arg, hs[h].orig, "sent")') = 1
           /\ (hs[h].pc = "s_send" /\ hs'[h].pc # "s_send")
                => (hs'[h].sent = hs[h].orig /\ hs'[h].llm = NoLlm)]_vars

\* The acceptance test as the rewrite guard states it, for input text
\* `original` and LLM outcome `outcome`.
GuardPasses(original, outcome) ==
    /\ outcome # LlmFailed
    /\ Len(getAIReply(outcome)) > 0
    /\ 2 * Len(Trim(getAIReply(outcome))) <= 3 * Len(original)
    /\ \A phrase \in {FillerHappy, FillerHelp, FillerHereIs} :
         ~Includes(ToLowerCase(getAIReply(outcome)), phrase)

\* C8: in mode B the provider is sent the LLM output only if it passes the
\* guard (not empty, trimmed length at most 1.5 x L, no filler phrase), and
\* the original text in every other case.
C8_RewriteGuard ==
    \A h \in Handlers :
        (hs[h].mode = "B" /\ hs[h].sent # NoLlm /\ hs[h].llm # NoLlm) =>
            /\ hs[h].sent # hs[h].orig =>
                 (GuardPasses(hs[h].orig, hs[h].llm) /\ hs[h].sent = Trim(getAIReply(hs[h].llm)))
            /\ ~GuardPasses(hs[h].orig, hs[h].llm) => hs[h].sent = hs[h].orig

\* A completion longer than 1.5 x L was returned and the original was sent;
\* another handler sent a completion of exactly 1.5 x L.
C8_Witness ==
    /\ \E h \in Handlers :
          hs[h].mode = "B" /\ hs[h].llm = RwLong /\ hs[h].sent = hs[h].orig
    /\ \E h \in Handlers :
          hs[h].mode = "B" /\ hs[h].llm = RwEdge /\ hs[h].sent = RwEdge

\* C9: in mode B the provider send uses the final text; the original is
\* stored and broadcast flagged as the original; when the final text
\* differs, the rewrite is stored and broadcast flagged as the rewrite.
C9_AssistedSend ==
    [][\A h \in Handlers :
         hs[h].mode = "B" =>
           /\ (hs[h].pc = "s_acc_w" /\ hs'[h].pc = "s_send")
                => /\ \E i \in Records(hs[h].jid, hs[h].arg, hs[h].orig, "sent")' :
                         chatsFile'[hs[h].jid][i].isOriginalInSemiAI
                   /\ pushed'[Len(pushed')].isOriginalInSemiAI
           /\ (hs[h].pc = "s_send" /\ hs'[h].pc # "s_send")
                => hs'[h].sent = hs[h].final
           /\ (hs[h].pc = "s_rw_w" /\ hs'[h].pc = "done")
                => /\ \E i \in Records(hs[h].jid, hs[h].msg.id, hs[h].final, "sent")' :
                         chatsFile'[hs[h].jid][i].isAIRewrite
                   /\ pushed'[Len(pushed')].isAIRewrite
           /\ (hs[h].pc = "s_send" /\ hs'[h].pc = "done")
                => hs[h].final = hs[h].orig]_vars

\* C10: after a failed LLM call, a mode B send hands the original text to
\* the provider and stores it; a mode C handler ends without sending,
\* storing or broadcasting a reply; the stored messages stay.
C10_LlmFailureDegrades ==
    [][\A h \in Handlers :
         /\ (hs[h].llm = LlmFailed /\ hs[h].pc = "s_acc_w" /\ hs'[h].pc = "s_send")
              => Records(hs[h].jid, hs[h].arg, hs[h].orig, "sent")' # {}
         /\ (hs[h].llm = LlmFailed /\ hs[h].pc = "s_send" /\ hs'[h].pc # "s_send")
              => (hs'[h].sent = hs[h].orig /\ hs'[h].pc = "done")
         /\ (hs[h].pc = "i_llm" /\ hs'[h].llm = LlmFailed)
              => (hs'[h].pc = "done"
                  /\ UNCHANGED <<chatsFile, stateFile, provider, pushed>>)]_vars

\* The messages stored for jid before the message with id `trigger`.
StoredBefore(jid, trigger) ==
    { i \in 1..Len(chatsFile[jid]) :
        \E k \in (i + 1)..Len(chatsFile[jid]) : chatsFile[jid][k].id = trigger }

\* C11: an autonomous reply carries no introduction when a message was
\* exchanged with the conversation less than 3 hours before the one it
\* answers, and carries the greeting and identification line when none was
\* exchanged for more than 3 hours.
C11_GreetingGate ==
    [][\A h \in Handlers :
         (hs[h].pc = "i_llm" /\ hs'[h].pc = "i_send") =>
            /\ (\E i \in StoredBefore(hs[h].jid, hs[h].msg.id) :
                   now - chatsFile[hs[h].jid][i].timestamp < HOURS_3)
                 => hs'[h].final = getAIReply(hs'[h].llm)
            /\ (\A i \in StoredBefore(hs[h].jid, hs[h].msg.id) :
                   now - chatsFile[hs[h].jid][i].timestamp > HOURS_3)
                 => \E hour \in Hours :
                      hs'[h].final = Greeting(hour) \o IntroTail \o getAIReply(hs'[h].llm)]_vars

\* C12: an inbound text of a contact on a conversation in mode A or B is
\* stored with the event's text as a received message and the handler then
\* ends without LLM call or provider send; the auto-reply starts only in
\* mode C, for a received message, when the event's text is not empty.
C12_InboundDispatch ==
    [][\A h \in Handlers :
         /\ (/\ hs[h].pc = "i_acc_w" /\ hs'[h].pc = "i_bcast"
             /\ hs[h].ev.type = "chat" /\ ~hs[h].ev.fromMe
             /\ getChatMode(stateFile, hs[h].jid) \in {"A", "B"})
              => Records(hs[h].jid, hs[h].ev.id, hs[h].ev.body, "received")' # {}
         /\ (hs[h].pc = "i_mode" /\ getChatMode(stateFile, hs[h].jid) \in {"A", "B"})
              => hs'[h].pc \in {"i_mode", "done"}
         /\ (hs[h].pc = "i_mode" /\ hs'[h].pc = "i_state")
              => /\ getChatMode(stateFile, hs[h].jid) = "C"
                 /\ ~hs[h].ev.fromMe
                 /\ Trim(hs[h].ev.body) # <<>>]_vars

\* A sent record with this content is stored for jid and was pushed.
SentAndPushed(chats, pushes, jid, content) ==
    /\ \E i \in 1..Len(chats[jid]) :
          chats[jid][i].content = content /\ chats[jid][i].direction = "sent"
    /\ \E k \in 1..Len(pushes) :
          /\ pushes[k].from = jid
          /\ pushes[k].content = content
          /\ pushes[k].direction = "sent"

\* C13: when the provider send of a text, of an automatic reply or of a
\* file fails, the outgoing message is stored and pushed as a sent message
\* all the same.
C13_StoredWhenSendFails ==
    [][\A h \in Handlers :
         /\ (hs[h].pc = "s_send" /\ hs'[h].pc # "s_send" /\ provider' = provider)
              => SentAndPushed(chatsFile', pushed', hs[h].jid, hs[h].orig)
         /\ (hs[h].pc = "i_send" /\ hs'[h].pc = "done")
              => SentAndPushed(chatsFile', pushed', hs[h].jid, hs[h].final)
         /\ (~Running(h) /\ hs'[h].pc = "done" /\ <<"file", "send", "none">> \in hs'[h].fx)
              => SentAndPushed(chatsFile', pushed', hs'[h].jid, hs'[h].sent)]_vars

\* Positions of record m in a stored list.
PosOf(list, m) == { i \in 1..Len(list) : list[i] = m }

\* Handlers whose message is accepted and whose push is still to come.
PushPending(g) == hs[g].pc \in {"i_bcast", "y_bcast"}

\* C14: within one conversation the push events are appended in the order
\* in which their messages were accepted: a handler never pushes its stored
\* message while another handler still has to push a message of the same
\* conversation that was stored earlier.
C14_PushOrder ==
    [][\A h, g \in Handlers :
         (/\ h # g
          /\ Len(pushed') > Len(pushed)
          /\ hs'[h] # hs[h]
          /\ PushPending(g)
          /\ hs[g].jid = hs[h].jid)
           => \A p \in PosOf(chatsFile'[hs[h].jid], hs[h].msg) :
                \A q \in PosOf(chatsFile'[hs[h].jid], hs[g].msg) : p < q]_vars

\* Handlers that are inside a run of the periodic sync.
SyncRunning == { h \in Handlers : hs[h].pc \in {"y_fetch", "y_acc_r", "y_acc_w", "y_bcast"} }

\* C15: at no time are two runs of the periodic sync active.
C15_SyncNeverOverlaps == Cardinality(SyncRunning) <= 1

\* Handler h takes a delete step that removes record m of conversation jid.
DeletedBy(h, jid, m) ==
    /\ hs[h].pc \in {"d_w", "d_p_w"}
    /\ hs'[h] # hs[h]
    /\ hs[h].jid = jid
    /\ IF hs[h].pc = "d_w" THEN ~KeepExact(m, hs[h].arg) ELSE ~KeepPartial(m, hs[h].arg)

\* C16: a stored message stays in the list of its conversation, unchanged,
\* in every step except a delete call that removes it.
C16_StoredStays ==
    [][\A jid \in Jids : \A i \in 1..Len(chatsFile[jid]) :
         \/ \E k \in 1..Len(chatsFile'[jid]) : chatsFile'[jid][k] = chatsFile[jid][i]
         \/ \E h \in Handlers : DeletedBy(h, jid, chatsFile[jid][i])]_vars

(***************************************************************************)
(* SpecStorageFault: callers of addMessageToChat when fs.writeFile can     *)
(* fail.  writeChats catches the error and logs it; addMessageToChat goes  *)
(* on to return true, and chats.json keeps what it held.                   *)
(***************************************************************************)
AddWriteFails(h) ==
    /\ hs[h].pc = "a_w"
    /\ accepts(hs[h].snap[hs[h].jid], hs[h].msg)
    /\ Set(h, [hs[h] EXCEPT !.pc = "done", !.inserted = TRUE,
                            !.fx = @ \cup {<<"candidate", "write", "failed">>}])
    /\ UNCHANGED <<chatsFile, stateFile, provider, pushed, now, nextId, ops, phoneSends, lastSentSyncByChat, lastSet, envFile>>

NextStorageFault ==
    \E h \in Handlers :
        \/ \E message \in GateCandidates : AddStart(h, "j1", message)
        \/ AddStart(h, "j2", Msg(<<"c","_","5","_","a">>, "chat", TxtHiAll, 0, "sent", FALSE, FALSE))
        \/ AddWrite(h)
        \/ AddWriteFails(h)

SpecStorageFault == Init /\ [][NextStorageFault]_vars

\* The accept of handler h returned true and its write failed.
WriteFailed(h) ==
    /\ hs[h].pc = "done"
    /\ hs[h].inserted
    /\ <<"candidate", "write", "failed">> \in hs[h].fx

\* C17: a message whose write failed is still seen by later operations: the
\* list read right after the accept holds it, and a later accept of the
\* same id in the same conversation is refused.
C17_FailedWriteStillSeen ==
    [][\A h \in Handlers :
         /\ (hs[h].pc = "a_w" /\ WriteFailed(h)')
              => \E k \in 1..Len(chatsFile'[hs[h].jid]) :
                    chatsFile'[hs[h].jid][k].id = hs[h].msg.id
         /\ \A g \in Handlers \ {h} :
              (/\ WriteFailed(h)
               /\ Free(g) /\ hs'[g].pc = "a_w"
               /\ hs'[g].jid = hs[h].jid
               /\ hs'[g].msg.id = hs[h].msg.id)
                => ~accepts(hs'[g].snap[hs'[g].jid], hs'[g].msg)]_vars

(***************************************************************************)
(* SpecMalformed: the inbound handler and the viewer handler on inputs     *)
(* the code does not expect.  Both handlers are async callbacks whose      *)
(* first statements stand outside every try block.                         *)
(***************************************************************************)
\* A provider event that passes the filter and names its sender but has no
\* numeric t: new Date(NaN).toISOString() throws a RangeError.
InboundMalformed(h, ev) ==
    /\ Free(h)
    /\ ops < MaxOps
    /\ ~ev.filtered
    /\ ops' = ops + 1
    /\ Set(h, [Idle EXCEPT !.pc = "thrown", !.jid = ev.chat, !.ev = ev])
    /\ UNCHANGED <<chatsFile, stateFile, provider, pushed, now, nextId, phoneSends, lastSentSyncByChat, lastSet, envFile>>

\* A viewer frame that is not JSON: JSON.parse throws a SyntaxError.
ViewerMalformed(h) ==
    /\ Free(h)
    /\ ops < MaxOps
    /\ ops' = ops + 1
    /\ Set(h, [Idle EXCEPT !.pc = "thrown"])
    /\ UNCHANGED <<chatsFile, stateFile, provider, pushed, now, nextId, phoneSends, lastSentSyncByChat, lastSet, envFile>>

NextMalformed ==
    \/ Tick
    \/ \E h \in Handlers :
        \/ \E ev \in Events, downloaded \in BOOLEAN : InboundStart(h, ev, downloaded)
        \/ InboundSteps(h)
        \/ \E ev \in Events : InboundMalformed(h, ev)
        \/ ViewerMalformed(h)

SpecMalformed == Init /\ [][NextMalformed]_vars

\* C18: no invocation of a handler ends with an exception that leaves it.
C18_NothingPropagates == \A h \in Handlers : hs[h].pc # "thrown"

(***************************************************************************)
(* SpecGroups: conversation j2 is a group.  Its provider chat id is        *)
(* 'j2@g.us'; the live handler sees its events flagged isGroupMsg, the     *)
(* periodic sync sees the chat in getAllChats and strips the suffix.       *)
(***************************************************************************)
GroupChats == {"j2"}

GroupEvents ==
    { Event(id, chat, fromMe, "chat", TxtHiAll, <<>>, TRUE) :
        id \in ProviderIds, chat \in GroupChats, fromMe \in BOOLEAN }

NextGroups ==
    \/ Tick
    \/ \E h \in Handlers :
        \/ \E ev \in GroupEvents, downloaded \in BOOLEAN : InboundStart(h, ev, downloaded)
        \/ \E ev \in Events, downloaded \in BOOLEAN : InboundStart(h, ev, downloaded)
        \/ InboundSteps(h)
        \/ SyncStart(h)
        \/ SyncSteps(h)
    \/ \E jid \in Jids, id \in ProviderIds : PhoneSend(jid, id, TxtHiAll)

SpecGroups == Init /\ [][NextGroups]_vars

\* C19: no message of a group conversation is stored or pushed.
C19_NoGroupMessages ==
    \A jid \in GroupChats :
        /\ chatsFile[jid] = <<>>
        /\ \A k \in 1..Len(pushed) : pushed[k].from # jid

\* C20: an inbound media event whose download failed, and whose id is not
\* stored yet, gets its placeholder record stored as a chat record and goes
\* on to the broadcast.
C20_MediaFailureStored ==
    [][\A h \in Handlers :
         (/\ hs[h].pc = "i_acc_w" /\ hs'[h].pc # "i_acc_w"
          /\ hs[h].ev.type \in MediaTypes
          /\ hs[h].msg.content = MediaErrorText
          /\ ~duplicateById(hs[h].snap[hs[h].jid], hs[h].msg))
           => /\ hs'[h].pc = "i_bcast"
              /\ \E k \in 1..Len(chatsFile'[hs[h].jid]) :
                    /\ chatsFile'[hs[h].jid][k].id = hs[h].ev.id
                    /\ chatsFile'[hs[h].jid][k].subType = "chat"
                    /\ chatsFile'[hs[h].jid][k].content = MediaErrorText]_vars

(***************************************************************************)
(* SpecDelete: the DELETE /api/delete-message route on a store that holds  *)
(* records with three-segment ids.                                         *)
(***************************************************************************)
IdMsg456 == <<"m","_","4","_","a">>
IdMsg123 == <<"m","_","1","_","a">>
IdOther == <<"c","_","5","_","b">>
IdPlain == <<"a">>

DeleteCandidates ==
    { Msg(IdMsg456, "chat", TxtHiAll, 0, "sent", FALSE, FALSE),
      Msg(IdOther, "chat", TxtOk, 0, "received", FALSE, FALSE),
      Msg(IdMsg123, "chat", TxtOk, 9000, "sent", FALSE, FALSE) }

NextDelete ==
    \E h \in Handlers :
        \/ \E message \in DeleteCandidates : AddStart(h, "j1", message)
        \/ AddWrite(h)
        \/ \E messageId \in {IdMsg123, IdMsg456, IdPlain} : DeleteStart(h, "j1", messageId)
        \/ DeleteSteps(h)

SpecDelete == Init /\ [][NextDelete]_vars

\* C21: a delete call with id m_1_a finds no exact match in a store that
\* holds m_4_a, falls back to the partial match and succeeds by removing
\* the record m_4_a.
C21_PartialMatchSucceeds ==
    [][\A h \in Handlers :
         (/\ hs[h].pc = "d_p_w" /\ hs'[h].pc = "done"
          /\ hs[h].arg = IdMsg123
          /\ HasId(hs[h].snap[hs[h].jid], IdMsg456))
           => /\ hs'[h].inserted
              /\ ~HasId(chatsFile'[hs[h].jid], IdMsg456)]_vars

\* C22: every push event carries the id of the record it announces.
C22_PushCarriesId == \A k \in 1..Len(pushed) : pushed[k].id # NoId

(***************************************************************************)
(* Settings and the assistant instruction: the .env file written by POST   *)
(* /api/settings, state.aiInstruction written by setAIInstruction, and     *)
(* getAIInstruction, which derives the instruction from the .env file.     *)
(***************************************************************************)
NL == "\n"
Quote == "\""
KeyApi == <<"G","R","O","Q","_","A","P","I","_","K","E","Y","=">>
KeyTraining == <<"A","I","_","T","R","A","I","N","I","N","G","=">>
KeySchedule == <<"A","I","_","S","C","H","E","D","U","L","E","=">>

\* "You are Ava, an AI assistant. Respond professionally, politely, and concisely."
DEFAULT_INSTRUCTION == <<"A","v","a">>
Available == <<"A","v","a","i","l","a","b","l","e">>

RECURSIVE SplitOn(_, _)
\* s.split(c)
SplitOn(s, c) ==
    IF \A i \in 1..Len(s) : s[i] # c THEN <<s>>
    ELSE LET k == CHOOSE i \in 1..Len(s) : s[i] = c /\ \A j \in 1..(i - 1) : s[j] # c
         IN <<SubSeq(s, 1, k - 1)>> \o SplitOn(SubSeq(s, k + 1, Len(s)), c)

RECURSIVE JoinWith(_, _)
\* parts.join(c)
JoinWith(parts, c) ==
    IF parts = <<>> THEN <<>>
    ELSE IF Len(parts) = 1 THEN parts[1]
    ELSE parts[1] \o <<c>> \o JoinWith(Tail(parts), c)

\* .replace(/"/g, '')
RemoveQuotes(s) == SelectSeq(s, LAMBDA ch : ch # Quote)

RECURSIVE EscapeQuotes(_)
\* .replace(/"/g, '\\"')
EscapeQuotes(s) ==
    IF s = <<>> THEN <<>>
    ELSE (IF Head(s) = Quote THEN <<"\\", Quote>> ELSE <<Head(s)>>) \o EscapeQuotes(Tail(s))

\* The lines POST /api/settings writes for one save.
SettingLine(key, value) == key \o <<Quote>> \o EscapeQuotes(value) \o <<Quote>>

SaveSettings(envContent, groqApiKey, aiTraining, aiSchedule) ==
    LET lines == SplitOn(envContent, NL)
        Updated(line) == IF StartsWith(line, KeyApi) THEN KeyApi \o groqApiKey
                         ELSE IF StartsWith(line, KeyTraining) THEN SettingLine(KeyTraining, aiTraining)
                         ELSE IF StartsWith(line, KeySchedule) THEN SettingLine(KeySchedule, aiSchedule)
                         ELSE line
        Has(key) == \E i \in 1..Len(lines) : StartsWith(lines[i], key)
        updatedLines == [i \in 1..Len(lines) |-> Updated(lines[i])]
                        \o (IF Has(KeyApi) THEN <<>> ELSE <<KeyApi \o groqApiKey>>)
                        \o (IF Has(KeyTraining) THEN <<>> ELSE <<SettingLine(KeyTraining, aiTraining)>>)
                        \o (IF Has(KeySchedule) THEN <<>> ELSE <<SettingLine(KeySchedule, aiSchedule)>>)
    IN JoinWith(updatedLines, NL)

\* The value getAIInstruction keeps for a key: line.substring('KEY=') has a
\* string where a number is expected, so it is substring(0), the whole line;
\* then the quotes are removed and the result is trimmed.  The last line
\* that starts with the key wins; the empty text when there is none.
EnvValue(lines, key) ==
    LET hits == { i \in 1..Len(lines) : StartsWith(lines[i], key) }
    IN IF hits = {} THEN <<>>
       ELSE Trim(RemoveQuotes(lines[CHOOSE i \in hits : \A j \in hits : j <= i]))

DigitChars == <<"0","1","2","3","4","5","6","7","8","9">>
IsDigitChar(c) == \E n \in 1..10 : DigitChars[n] = c
DigitVal(c) == (CHOOSE n \in 1..10 : DigitChars[n] = c) - 1

\* \d{1,2}:\d{2} with an hour of len digits at position i of r
ClockAt(r, i, len) ==
    /\ i >= 1 /\ i + len + 2 <= Len(r)
    /\ \A k \in i..(i + len - 1) : IsDigitChar(r[k])
    /\ r[i + len] = ":"
    /\ IsDigitChar(r[i + len + 1]) /\ IsDigitChar(r[i + len + 2])

\* convert24HourTimeToMinutes
ClockMinutes(r, i, len) ==
    LET hours == IF len = 1 THEN DigitVal(r[i]) ELSE 10 * DigitVal(r[i]) + DigitVal(r[i + 1])
        minutes == 10 * DigitVal(r[i + len + 1]) + DigitVal(r[i + len + 2])
    IN hours * 60 + minutes

\* \s*-\s* on positions a..b of r
DashGap(r, a, b) ==
    \E k \in a..b : /\ r[k] = "-"
                    /\ \A m \in (a..b) \ {k} : IsSpace(r[m])

\* timeRange.match(/(\d{1,2}:\d{2})\s*-\s*(\d{1,2}:\d{2})/): the matches as
\* <<start minutes, end minutes, position>>
TimeMatches(r) ==
    { <<ClockMinutes(r, i, a), ClockMinutes(r, j, b), i>> :
        <<i, a, j, b>> \in { q \in (1..Len(r)) \X {1, 2} \X (1..Len(r)) \X {1, 2} :
                               /\ ClockAt(r, q[1], q[2])
                               /\ ClockAt(r, q[3], q[4])
                               /\ q[1] + q[2] + 3 <= q[3] - 1
                               /\ DashGap(r, q[1] + q[2] + 3, q[3] - 1) } }

RECURSIVE ScheduleLoop(_, _, _)
\* for (const line of scheduleLines): currentActivity after the loop
ScheduleLoop(scheduleLines, currentTimeInMinutes, currentActivity) ==
    IF scheduleLines = <<>> THEN currentActivity
    ELSE LET trimmedLine == Trim(Head(scheduleLines))
             parts == SplitOn(trimmedLine, ":")
             timeRange == Trim(parts[1])
             activity == Trim(JoinWith(Tail(parts), ":"))
             timeMatch == TimeMatches(timeRange)
             first == CHOOSE m \in timeMatch : \A n \in timeMatch : m[3] <= n[3]
             covers == /\ trimmedLine # <<>> /\ Includes(trimmedLine, <<":">>)
                       /\ Len(parts) >= 2
                       /\ timeMatch # {}
                       /\ currentTimeInMinutes >= first[1]
                       /\ currentTimeInMinutes <= first[2]
         IN ScheduleLoop(Tail(scheduleLines), currentTimeInMinutes,
                         IF covers THEN activity ELSE currentActivity)

\* The instruction as its parts: the base text, whether a schedule context
\* was appended, and the activity named in 'Current Status: Currently ...'.
\* The guidance appended after the status, by the activity's keywords.
Guidance(currentActivity) ==
    IF \/ Includes(currentActivity, <<"S","t","u","d","y">>)
       \/ Includes(currentActivity, <<"H","o","m","e","w","o","r","k">>)
       \/ Includes(currentActivity, <<"P","r","o","g","r","a","m","m","i","n","g">>)
       \/ Includes(currentActivity, <<"C","o","d","i","n","g">>)
    THEN "The user is busy. Tell when they will be free. Ask if urgent."
    ELSE IF Includes(currentActivity, <<"S","c","h","o","o","l">>)
    THEN "The user is at school. Will reply later."
    ELSE IF Includes(currentActivity, <<"S","l","e","e","p">>)
    THEN "The user is sleeping. Will reply in the morning."
    ELSE "The user is available."

Instruction(base, scheduled, activity) ==
    [base |-> base, scheduled |-> scheduled, activity |-> activity,
     hint |-> IF scheduled THEN Guidance(activity) ELSE ""]

getAIInstruction(envContent, currentTimeInMinutes) ==
    LET lines == SplitOn(envContent, NL)
        aiTraining == EnvValue(lines, KeyTraining)
        aiSchedule == EnvValue(lines, KeySchedule)
        baseInstruction == IF aiTraining # <<>> THEN aiTraining ELSE DEFAULT_INSTRUCTION
    IN IF aiSchedule = <<>> THEN Instruction(baseInstruction, FALSE, <<>>)
       ELSE Instruction(baseInstruction, TRUE,
                        ScheduleLoop(SplitOn(aiSchedule, NL), currentTimeInMinutes, Available))

\* Texts a user enters in the settings form and in the instruction form.
TrainingBrief == <<"b","e"," ","b","r","i","e","f">>
InstructionKind == <<"b","e"," ","k","i","n","d">>
ScheduleOne == <<"6",":","0","0","-","9",":","0","0",":"," ","S","t","u","d","y">>
ScheduleTwo == ScheduleOne \o <<NL>>
               \o <<"8",":","0","0","-","9",":","3","0",":"," ","S","c","h","o","o","l">>
Study == <<"S","t","u","d","y">>
School == <<"S","c","h","o","o","l">>
ApiKey == <<"k">>

\* Minutes of the day at which the instruction is asked for: 08:30 and 12:00.
ClockTimes == {510, 720}

\* POST /api/settings: the .env file is read ...
SettingsStart(h, aiTraining, aiSchedule) ==
    /\ Free(h)
    /\ ops < MaxOps
    /\ ops' = ops + 1
    /\ Set(h, [Idle EXCEPT !.pc = "e_w", !.env = envFile, !.aiTraining = aiTraining,
                           !.aiSchedule = aiSchedule])
    /\ UNCHANGED <<chatsFile, stateFile, provider, pushed, now, nextId, phoneSends, lastSentSyncByChat, lastSet, envFile>>

\* ... and written back with the three settings replaced or appended.
SettingsWrite(h) ==
    /\ hs[h].pc = "e_w"
    /\ envFile' = SaveSettings(hs[h].env, ApiKey, hs[h].aiTraining, hs[h].aiSchedule)
    /\ Set(h, [hs[h] EXCEPT !.pc = "done", !.env = <<>>,
                            !.fx = @ \cup {<<"settings", "write", "none">>}])
    /\ UNCHANGED <<chatsFile, stateFile, provider, pushed, now, nextId, ops, phoneSends, lastSentSyncByChat, lastSet>>

\* POST /api/ai-instruction: setAIInstruction reads state.json ...
SetInstructionStart(h, instruction) ==
    /\ Free(h)
    /\ ops < MaxOps
    /\ ops' = ops + 1
    /\ Set(h, [Idle EXCEPT !.pc = "n_w", !.st = stateFile, !.instruction = instruction])
    /\ UNCHANGED <<chatsFile, stateFile, provider, pushed, now, nextId, phoneSends, lastSentSyncByChat, lastSet, envFile>>

\* ... sets state.aiInstruction and writes the state back.
SetInstructionWrite(h) ==
    /\ hs[h].pc = "n_w"
    /\ stateFile' = [hs[h].st EXCEPT !.aiInstruction = hs[h].instruction]
    /\ Set(h, [hs[h] EXCEPT !.pc = "done", !.st = DefaultState,
                            !.fx = @ \cup {<<"instruction", "write", "none">>}])
    /\ UNCHANGED <<chatsFile, provider, pushed, now, nextId, ops, phoneSends, lastSentSyncByChat, lastSet, envFile>>

\* GET /api/ai-instruction, and the first statement of the automatic reply:
\* getAIInstruction at wall-clock time currentTimeInMinutes.
GetInstruction(h, currentTimeInMinutes) ==
    /\ Free(h)
    /\ ops < MaxOps
    /\ ops' = ops + 1
    /\ Set(h, [Idle EXCEPT !.pc = "done", !.env = envFile,
                           !.instruction = getAIInstruction(envFile, currentTimeInMinutes),
                           !.ci = currentTimeInMinutes,
                           !.fx = {<<"instruction", "read", "none">>}])
    /\ UNCHANGED <<chatsFile, stateFile, provider, pushed, now, nextId, phoneSends, lastSentSyncByChat, lastSet, envFile>>

NextInstruction ==
    \E h \in Handlers :
        \/ \E aiTraining \in {TxtEmpty, TrainingBrief}, aiSchedule \in {TxtEmpty, ScheduleOne, ScheduleTwo} :
              SettingsStart(h, aiTraining, aiSchedule)
        \/ SettingsWrite(h)
        \/ \E instruction \in {InstructionKind, TrainingBrief} : SetInstructionStart(h, instruction)
        \/ SetInstructionWrite(h)
        \/ \E currentTimeInMinutes \in ClockTimes : GetInstruction(h, currentTimeInMinutes)

SpecInstruction == Init /\ [][NextInstruction]_vars

\* The .env file is what a first settings save with ScheduleTwo wrote.
SavedTwoRanges ==
    \E aiTraining \in {TxtEmpty, TrainingBrief} :
        envFile = SaveSettings(<<>>, ApiKey, aiTraining, ScheduleTwo)

\* C23: with the schedule '6:00-9:00: Study' / '8:00-9:30: School' saved,
\* an instruction derived at 08:30, which both ranges cover, names the
\* activity of the later line, School.
C23_LaterLineWins ==
    [][\A h \in Handlers :
         (/\ SavedTwoRanges
          /\ hs'[h] # hs[h]
          /\ <<"instruction", "read", "none">> \in hs'[h].fx
          /\ hs'[h].ci = 510)
           => hs'[h].instruction.activity = School]_vars

\* A call of setAIInstruction with this text has completed and state.json
\* still holds the text.
InstructionSet(x) ==
    /\ stateFile.aiInstruction = x
    /\ \E g \in Handlers : /\ hs[g].pc = "done"
                           /\ <<"instruction", "write", "none">> \in hs[g].fx
                           /\ hs[g].instruction = x

\* C24: once setAIInstruction(x) has completed, the instruction that
\* getAIInstruction returns has x as its base text.
C24_InstructionLastWriteWins ==
    [][\A h \in Handlers : \A x \in {InstructionKind, TrainingBrief} :
         (/\ InstructionSet(x)
          /\ hs'[h] # hs[h]
          /\ <<"instruction", "read", "none">> \in hs'[h].fx)
           => hs'[h].instruction.base = x]_vars

\* The push events that announce record m of conversation jid by its id.
PushesOf(jid, m) ==
    { k \in 1..Len(pushed) : pushed[k].from = jid /\ pushed[k].id = m.id }

\* C25: a stored message is pushed once: no record with an id is announced
\* by two push events.
C25_PushedOnce ==
    \A jid \in Jids : \A i \in 1..Len(chatsFile[jid]) :
        chatsFile[jid][i].id # NoId => Cardinality(PushesOf(jid, chatsFile[jid][i])) <= 1

(***************************************************************************)
(* SpecWindow: addMessageToChat on candidates that differ in id and lie    *)
(* 3, 8 and 9 seconds apart, with padded, empty and differently typed      *)
(* variants and one whose timestamp does not parse.                        *)
(***************************************************************************)
WindowTimes == {0, 3000, 8000, 9000}
TsUnparsable == -1

WindowId(ts) == <<"w", "_", "t", "_", Digit(ts \div 1000)>>

WindowCandidates ==
    { Msg(WindowId(ts), "chat", TxtHiAll, ts, "sent", FALSE, FALSE) : ts \in WindowTimes }
    \cup { Msg(<<"c","_","5","_","a">>, "chat", TxtHiAllPadded, 8000, "sent", FALSE, FALSE),
           Msg(<<"c","_","6","_","b">>, "chat", TxtHiAll, 3000, "received", FALSE, FALSE),
           Msg(<<"c","_","7","_","c">>, "image", TxtHiAll, 3000, "sent", FALSE, FALSE),
           Msg(<<"c","_","8","_","d">>, "chat", TxtEmpty, 0, "sent", FALSE, FALSE),
           Msg(<<"c","_","9","_","e">>, "chat", TxtEmpty, 3000, "sent", FALSE, FALSE),
           Msg(<<"c","_","4","_","f">>, "chat", TxtHiAll, TsUnparsable, "sent", FALSE, FALSE) }

NextWindow ==
    \E h \in Handlers :
        \/ \E message \in WindowCandidates : AddStart(h, "j1", message)
        \/ AddWrite(h)

SpecWindow == Init /\ [][NextWindow]_vars

\* Stored record e has the candidate's trimmed content, direction and kind.
SameText(e, message) ==
    /\ Trim(e.content) = Trim(message.content)
    /\ e.direction = message.direction
    /\ SubTypeOrChat(e.subType) = SubTypeOrChat(message.subType)

\* C26: a candidate whose id is not in the list it was checked against is
\* refused when the list holds a record with the same trimmed text,
\* direction and kind at most 8000 ms away, and accepted when every such
\* record is further away; a candidate whose text is blank or whose
\* timestamp does not parse is accepted.
C26_WindowRule ==
    [][\A h \in Handlers :
         (/\ hs[h].pc = "a_w" /\ hs'[h].pc = "done"
          /\ ~HasId(hs[h].snap[hs[h].jid], hs[h].msg.id))
           => LET list == hs[h].snap[hs[h].jid]
                  message == hs[h].msg
                  textual == Trim(message.content) # <<>> /\ message.timestamp # TsUnparsable
                  near == { i \in 1..Len(list) :
                              /\ SameText(list[i], message)
                              /\ list[i].timestamp # TsUnparsable
                              /\ Abs(list[i].timestamp - message.timestamp) <= 8000 }
              IN hs'[h].inserted = (~textual \/ near = {})]_vars

\* A candidate refused at exactly 8000 ms from the stored record with the
\* same text and another id, and the store left with that one record.
C26_Witness ==
    \E h \in Handlers :
        /\ hs[h].pc = "done"
        /\ ~hs[h].inserted
        /\ hs[h].msg = Msg(WindowId(8000), "chat", TxtHiAll, 8000, "sent", FALSE, FALSE)
        /\ chatsFile["j1"] = <<Msg(WindowId(0), "chat", TxtHiAll, 0, "sent", FALSE, FALSE)>>

\* C27: when two calls of addMessageToChat on the same conversation have
\* both returned true for different messages, both messages are stored.
C27_BothAcceptedBothStored ==
    \A h, g \in Handlers :
        (/\ h # g
         /\ hs[h].pc = "done" /\ hs[g].pc = "done"
         /\ hs[h].inserted /\ hs[g].inserted
         /\ hs[h].msg # NoMsg /\ hs[g].msg # NoMsg
         /\ hs[h].jid = hs[g].jid
         /\ hs[h].msg.id # hs[g].msg.id)
          => /\ HasId(chatsFile[hs[h].jid], hs[h].msg.id)
             /\ HasId(chatsFile[hs[h].jid], hs[g].msg.id)

\* C28: in Semi-AI mode the original is stored and pushed, flagged as the
\* original, before the LLM is asked for the rewrite, and the provider send
\* comes after the LLM call.
C28_OriginalBeforeRewrite ==
    [][\A h \in Handlers :
         /\ (hs[h].pc = "s_llm" /\ hs'[h].pc # "s_llm")
              => /\ \E i \in 1..Len(chatsFile[hs[h].jid]) :
                       /\ chatsFile[hs[h].jid][i].id = hs[h].arg
                       /\ chatsFile[hs[h].jid][i].isOriginalInSemiAI
                 /\ \E k \in 1..Len(pushed) :
                       /\ pushed[k].id = hs[h].arg
                       /\ pushed[k].isOriginalInSemiAI
         /\ (hs[h].pc = "s_send" /\ hs'[h].pc # "s_send" /\ hs[h].mode = "B")
              => <<"original", "llm", "none">> \in hs[h].fx]_vars

\* C29: the mark of a conversation only moves forward, and only to the
\* timestamp of a provider message of that conversation, which the run has
\* fetched.
C29_MarkFollowsObserved ==
    [][\A jid \in Jids :
         lastSentSyncByChat'[jid] # lastSentSyncByChat[jid]
           => /\ lastSentSyncByChat'[jid] > lastSentSyncByChat[jid]
              /\ \E m \in provider[jid] : m.t * 1000 = lastSentSyncByChat'[jid]]_vars

(***************************************************************************)
(* SpecSyncLive: the provider stays logged in, so the setInterval timer    *)
(* keeps starting runs of the periodic sync, beside text sends on j1 and a *)
(* text the owner sends from the phone.  Every started handler goes on     *)
(* (weak fairness of its steps) and the timer keeps firing.                *)
(***************************************************************************)
\* One firing of the timer while wppStatus is 'isLogged'.
TimerSync(h) ==
    /\ Free(h)
    /\ Set(h, [Idle EXCEPT !.pc = "y_fetch", !.ci = 1])
    /\ UNCHANGED <<chatsFile, stateFile, provider, pushed, now, nextId, ops, phoneSends, lastSentSyncByChat, lastSet, envFile>>

NextSyncLive ==
    \/ Tick
    \/ \E h \in Handlers :
        \/ SendStart(h, "j1", <<"c","_","5","_","a">>, TxtHiAll)
        \/ SendSteps(h)
        \/ TimerSync(h)
        \/ SyncSteps(h)
    \/ \E id \in ProviderIds : PhoneSend("j1", id, TxtOk)

SpecSyncLive ==
    /\ Init /\ [][NextSyncLive]_vars
    /\ WF_vars(\E h \in Handlers : TimerSync(h))
    /\ \A h \in Handlers : WF_vars(SyncSteps(h)) /\ WF_vars(SendSteps(h))

\* The owner's phone text with this id is in the provider's history of j1.
PhoneTextSent(id) ==
    \E m \in provider["j1"] : m.id = id /\ m.body = TxtOk /\ m.t > 0

\* The text is stored in j1 under its id and a push event announces it.
PhoneTextSynced(id) ==
    /\ \E i \in 1..Len(chatsFile["j1"]) :
          chatsFile["j1"][i].id = id /\ chatsFile["j1"][i].content = TxtOk
    /\ \E k \in 1..Len(pushed) :
          pushed[k].from = "j1" /\ pushed[k].content = TxtOk /\ pushed[k].direction = "sent"

\* C30: while the timer keeps firing, a text the owner sent from the phone
\* is eventually stored and pushed (no stored message has its content, so
\* the gate has no reason to refuse it).
C30_PhoneTextEventuallySynced ==
    \A id \in ProviderIds : PhoneTextSent(id) ~> PhoneTextSynced(id)

(***************************************************************************)
(* POST /api/sync-chat/:jid -> syncSentMessagesForChat (server.js          *)
(* 2023-2089).  The function is declared at module level, while            *)
(* lastSentSyncByChat is a const of startWPPConnect (1941): once the       *)
(* provider returned messages, reading the mark at 2031 throws a           *)
(* ReferenceError, the catch at 2078 swallows it and the call returns 0.   *)
(***************************************************************************)
SyncChatStart(h, jid) ==
    /\ Free(h)
    /\ ops < MaxOps
    /\ ops' = ops + 1
    /\ Set(h, [Idle EXCEPT !.pc = "k_fetch", !.jid = jid])
    /\ UNCHANGED <<chatsFile, stateFile, provider, pushed, now, nextId, phoneSends, lastSentSyncByChat, lastSet, envFile>>

\* getAllMessagesInChat answers; `messages` is kept in queue.  Both ways
\* out (`if (!messages?.length) return 0` and the catch) return 0.
SyncChatFetch(h) ==
    /\ hs[h].pc = "k_fetch"
    /\ Set(h, [hs[h] EXCEPT !.pc = "done", !.queue = SortByT(provider[hs[h].jid]),
                            !.synced = 0,
                            !.fx = @ \cup {<<"ondemand", "return", "none">>}])
    /\ UNCHANGED <<chatsFile, stateFile, provider, pushed, now, nextId, ops, phoneSends, lastSentSyncByChat, lastSet, envFile>>

(***************************************************************************)
(* SpecSyncChat: the owner sends texts from the phone and a viewer opens   *)
(* the conversations.                                                      *)
(***************************************************************************)
NextSyncChat ==
    \/ Tick
    \/ \E id \in ProviderIds, body \in {TxtHiAll, TxtOk} : PhoneSend("j1", id, body)
    \/ \E h \in Handlers :
        \/ \E jid \in Jids : SyncChatStart(h, jid)
        \/ SyncChatFetch(h)

SpecSyncChat == Init /\ [][NextSyncChat]_vars

\* The handler has returned from an on-demand sync.
OnDemandDone(h) == <<"ondemand", "return", "none">> \in hs[h].fx

\* C31: when an on-demand sync of a conversation has returned, every sent
\* message the provider reported to it that is newer than the
\* conversation's mark is in the transcript (by id, or refused as a
\* content duplicate of a stored record).
C31_OnDemandSyncStores ==
    \A h \in Handlers :
        OnDemandDone(h) =>
            LET jid == hs[h].jid
                fresh == newSent({hs[h].queue[k] : k \in 1..Len(hs[h].queue)},
                                 lastSentSyncByChat[jid])
            IN \A k \in 1..Len(fresh) :
                  fresh[k].body # <<>> =>
                     ~accepts(chatsFile[jid], SentMessage(fresh[k]))

(***************************************************************************)
(* Errors inside one conversation of a periodic sync run (server.js        *)
(* 1960-2014).  Everything from getAllMessagesInChat to the mark is in the *)
(* per-chat try; its catch is empty and the for loop goes on.              *)
(***************************************************************************)
\* The catch leaving the loop instead.
SyncFailAborts(r) ==
    [r EXCEPT !.pc = "done", !.queue = <<>>, !.msg = NoMsg,
              !.fx = @ \cup {<<r.jid, "error", "none">>}]

\* `catch (e) { // Skip individual chat errors }`, then the next chat.
SyncFail(r) == SyncNext([r EXCEPT !.fx = @ \cup {<<r.jid, "error", "none">>}])

\* getAllMessagesInChat rejects.
SyncFetchFails(h) ==
    /\ hs[h].pc = "y_fetch"
    /\ Set(h, SyncFail([hs[h] EXCEPT !.jid = ChatOrder[hs[h].ci]]))
    /\ UNCHANGED <<chatsFile, stateFile, provider, pushed, now, nextId, ops, phoneSends, lastSentSyncByChat, lastSet, envFile>>

\* Building the record throws (toISOString of an invalid msg.t), or
\* addMessageToChat throws on what readChats returned.
SyncRecordFails(h) ==
    /\ hs[h].pc \in {"y_acc_r", "y_acc_w"}
    /\ Set(h, SyncFail([hs[h] EXCEPT !.snap = EmptyChats]))
    /\ UNCHANGED <<chatsFile, stateFile, provider, pushed, now, nextId, ops, phoneSends, lastSentSyncByChat, lastSet, envFile>>

\* getContactDetails or a viewer's send throws after the accept.
SyncBroadcastFails(h) ==
    /\ hs[h].pc = "y_bcast"
    /\ Set(h, SyncFail(hs[h]))
    /\ UNCHANGED <<chatsFile, stateFile, provider, pushed, now, nextId, ops, phoneSends, lastSentSyncByChat, lastSet, envFile>>

SyncFaults(h) ==
    \/ SyncFetchFails(h)
    \/ SyncRecordFails(h)
    \/ SyncBroadcastFails(h)

(***************************************************************************)
(* SpecSyncFault: periodic sync runs over both conversations while the     *)
(* owner sends from the phone, with an error possible at every await.      *)
(***************************************************************************)
NextSyncFault ==
    \/ Tick
    \/ \E jid \in Jids, id \in ProviderIds : PhoneSend(jid, id, TxtHiAll)
    \/ \E h \in Handlers :
        \/ SyncStart(h)
        \/ SyncSteps(h)
        \/ SyncFaults(h)

SpecSyncFault == Init /\ [][NextSyncFault]_vars

SyncPcs == {"y_fetch", "y_acc_r", "y_acc_w", "y_bcast"}

\* C32: a sync run goes through the conversations one by one and ends only
\* from the last one, whether the step it takes in a conversation is an
\* error or not: an error in one conversation never ends the run.
C32_ErrorDoesNotAbortRun ==
    [][\A h \in Handlers :
         hs[h].pc \in SyncPcs =>
            /\ (hs'[h].pc = "done" => hs[h].ci = Len(ChatOrder))
            /\ (hs'[h].pc \notin {"done"} \cup SyncPcs => FALSE)
            /\ (hs'[h].ci # hs[h].ci =>
                    hs'[h].ci = hs[h].ci + 1 /\ hs'[h].pc = "y_fetch")]_vars

\* A finished run that failed in j1 and stored and broadcast a message of j2.
C32_Witness ==
    \E h \in Handlers :
        /\ hs[h].pc = "done"
        /\ <<"j1", "error", "none">> \in hs[h].fx
        /\ <<"sync", "push", "accepted">> \in hs[h].fx
        /\ chatsFile["j1"] = <<>>
        /\ chatsFile["j2"] # <<>>

(***************************************************************************)
(* SpecSchedule: one range saved through the settings form, and the        *)
(* instruction derived before, at both ends of, inside and after it.       *)
(***************************************************************************)
ScheduleCoding ==
    <<"0","9",":","0","0","-","1","2",":","0","0",":"," ","C","o","d","i","n","g">>
Coding == <<"C","o","d","i","n","g">>

\* 08:59, 09:00, 10:30, 12:00 and 12:01 in minutes of the day.
ScheduleClockTimes == {539, 540, 630, 720, 721}

NextSchedule ==
    \E h \in Handlers :
        \/ \E aiTraining \in {TxtEmpty, TrainingBrief}, aiSchedule \in {TxtEmpty, ScheduleCoding} :
              SettingsStart(h, aiTraining, aiSchedule)
        \/ SettingsWrite(h)
        \/ \E currentTimeInMinutes \in ScheduleClockTimes : GetInstruction(h, currentTimeInMinutes)

SpecSchedule == Init /\ [][NextSchedule]_vars

\* The .env file carries the schedule line "09:00-12:00: Coding".
SavedCoding ==
    \E aiTraining \in {TxtEmpty, TrainingBrief} :
        envFile = SaveSettings(<<>>, ApiKey, aiTraining, ScheduleCoding)

\* C33: with the schedule line "09:00-12:00: Coding", an instruction derived
\* at a time from 09:00 to 12:00, both ends included, reports Coding as the
\* current activity and carries the "The user is busy..." hint.
C33_CurrentRangeDrivesHint ==
    [][\A h \in Handlers :
         (/\ SavedCoding
          /\ hs'[h] # hs[h]
          /\ <<"instruction", "read", "none">> \in hs'[h].fx
          /\ hs'[h].ci \in 540..720)
           => /\ Includes(hs'[h].instruction.activity, Coding)
              /\ hs'[h].instruction.hint = "The user is busy. Tell when they will be free. Ask if urgent."]_vars

(***************************************************************************)
(* client.onMessage, text branch with its lookups (server.js 1528-1800).   *)
(* refreshed is the text extractTextContent finds in what getMessageById   *)
(* returns for the event's own id (empty when the call fails or finds      *)
(* nothing); referenced is the text of the first message that              *)
(* botResponseTargetId / parentMsgId resolve to (empty when there is none).*)
(***************************************************************************)
RefId == <<"w","_","r","_","9">>

\* A variant that keeps an event without text as an empty chat message.
ResolveTextKeepsEmpty(ev, refreshed, referenced, ts) ==
    LET direction == IF ev.fromMe THEN "sent" ELSE "received"
        own == extractTextContent(ev)
        content == IF Len(own) < 20 /\ Len(refreshed) > Len(own) THEN refreshed ELSE own
    IN [kind |-> "text", msg |-> Msg(ev.id, "chat", content, ts, direction, FALSE, FALSE)]

\* content after the re-fetch (1531-1543, again at 1664-1674); without
\* content the referenced message is recovered (1681-1731) or the event is
\* dropped (1748); with short content a longer referenced text replaces
\* it (1753-1770).
ResolveText(ev, refreshed, referenced, ts) ==
    LET direction == IF ev.fromMe THEN "sent" ELSE "received"
        own == extractTextContent(ev)
        content == IF Len(own) < 20 /\ Len(refreshed) > Len(own) THEN refreshed ELSE own
        refined == IF Len(content) <= 8 /\ Len(referenced) > Len(content)
                   THEN referenced ELSE content
    IN IF content = <<>>
       THEN IF referenced = <<>>
            THEN [kind |-> "drop", msg |-> NoMsg]
            ELSE [kind |-> "recovered",
                  msg |-> Msg(RefId, "chat", referenced, ts, direction, FALSE, FALSE)]
       ELSE [kind |-> "text", msg |-> Msg(ev.id, "chat", refined, ts, direction, FALSE, FALSE)]

InboundTextStart(h, ev, refreshed, referenced) ==
    /\ Free(h)
    /\ ops < MaxOps
    /\ ~ev.filtered
    /\ ev.type \notin MediaTypes
    /\ ops' = ops + 1
    /\ LET r == ResolveText(ev, refreshed, referenced, now)
           start == [Idle EXCEPT !.jid = ev.chat, !.arg = ev.id, !.ev = ev, !.msg = r.msg,
                                 !.refreshed = refreshed, !.referenced = referenced]
       IN Set(h, [start EXCEPT !.pc = CASE r.kind = "drop" -> "done"
                                        [] r.kind = "recovered" -> "r_acc_r"
                                        [] OTHER -> "i_acc_r"])
    /\ UNCHANGED <<chatsFile, stateFile, provider, pushed, now, nextId, phoneSends, lastSentSyncByChat, lastSet, envFile>>

\* addMessageToChat(referencedJid, recoveredMessage) reads chats.json ...
RecoveredStoreRead(h) ==
    /\ hs[h].pc = "r_acc_r"
    /\ Set(h, [hs[h] EXCEPT !.pc = "r_acc_w", !.snap = chatsFile])
    /\ UNCHANGED <<chatsFile, stateFile, provider, pushed, now, nextId, ops, phoneSends, lastSentSyncByChat, lastSet, envFile>>

\* ... decides and writes; the recovered message is broadcast when it was
\* inserted, and the handler returns.
RecoveredStoreWrite(h) ==
    /\ hs[h].pc = "r_acc_w"
    /\ LET ok == accepts(hs[h].snap[hs[h].jid], hs[h].msg)
       IN /\ chatsFile' = IF ok THEN addMessageToChat(hs[h].snap, hs[h].jid, hs[h].msg)
                                ELSE chatsFile
          /\ pushed' = IF ok THEN Append(pushed, PushEvent(hs[h].jid, hs[h].msg, NoId))
                             ELSE pushed
          /\ Set(h, [hs[h] EXCEPT !.pc = "done", !.inserted = ok, !.snap = EmptyChats,
                                  !.fx = @ \cup (IF ok THEN {<<"recovered", "push", "accepted">>}
                                                       ELSE {})])
    /\ UNCHANGED <<stateFile, provider, now, nextId, ops, phoneSends, lastSentSyncByChat, lastSet, envFile>>

(***************************************************************************)
(* SpecResolve: inbound non-media events with and without text of their    *)
(* own on a Full-AI conversation, with every outcome of the lookups.       *)
(***************************************************************************)
ResolveEvents ==
    { Event(id, "j1", FALSE, "chat", body, <<>>, FALSE) :
        id \in ProviderIds, body \in {TxtEmpty, TxtOk} }

NextResolve ==
    \E h \in Handlers :
        \/ \E ev \in ResolveEvents, refreshed \in {TxtEmpty, TxtHiAll}, referenced \in {TxtEmpty, TxtHiAll} :
              InboundTextStart(h, ev, refreshed, referenced)
        \/ RecoveredStoreRead(h)
        \/ RecoveredStoreWrite(h)
        \/ InboundSteps(h)
        \/ InboundReply(h, RwOk, 9)
        \/ AutoReplySteps(h)

SpecResolve == InitAuto /\ [][NextResolve]_vars

\* The event handler h took is a non-media event for which its own fields,
\* the re-fetch and the referenced messages all gave no text.
Unresolvable(h) ==
    /\ hs[h].ev # NoEvent
    /\ hs[h].ev.type \notin MediaTypes
    /\ extractTextContent(hs[h].ev) = <<>>
    /\ hs[h].refreshed = <<>>
    /\ hs[h].referenced = <<>>

\* C34: the handler of an event that resolves to no text ends in the step
\* that takes the event, and that step leaves the transcript, the pushes
\* and the provider unchanged and makes no LLM call and no send.
C34_UnresolvedDropped ==
    [][\A h \in Handlers :
         (hs'[h] # hs[h] /\ Unresolvable(h)') =>
            /\ hs'[h].pc = "done"
            /\ hs'[h].fx = {}
            /\ hs'[h].llm = NoLlm /\ hs'[h].sent = NoLlm
            /\ chatsFile' = chatsFile
            /\ pushed' = pushed
            /\ provider' = provider]_vars

\* An event without any text was dropped while the transcript held a
\* message, and nothing was pushed for it.
C34_Witness ==
    \E h \in Handlers :
        /\ Unresolvable(h)
        /\ hs[h].pc = "done"
        /\ chatsFile["j1"] # <<>>
        /\ \A k \in 1..Len(pushed) : pushed[k].content # <<>>

(***************************************************************************)
(* SpecKinds: messages of every provider type on the three paths that      *)
(* record a kind: inbound events, the periodic sync and file sends.        *)
(***************************************************************************)
Kinds == {"chat", "image", "sticker", "video", "audio", "document"}

\* The body the provider reports for a contact card.
VCardBody == <<"B","E","G","I","N",":","V","C","A","R","D">>

\* The account's owner sends a message of some provider type from the
\* primary device: a voice note with a caption, or a contact card.
PhoneSendOfType(jid, id, type, body) ==
    /\ phoneSends < MaxPhone
    /\ phoneSends' = phoneSends + 1
    /\ provider' = [provider EXCEPT ![jid] = @ \cup {ProviderMsg(id, now \div 1000, body, type)}]
    /\ UNCHANGED <<chatsFile, stateFile, pushed, hs, now, nextId, ops, lastSentSyncByChat, lastSet, envFile>>

KindEvents ==
    { Event(<<"w","_","j","_","1">>, "j1", FALSE, type, TxtEmpty, <<>>, FALSE) :
        type \in {"ptt", "image"} }

NextKinds ==
    \/ Tick
    \/ \E type \in {"ptt", "vcard"} :
          PhoneSendOfType("j1", <<"w","_","j","_","2">>, type, VCardBody)
    \/ \E h \in Handlers :
        \/ \E ev \in KindEvents, downloaded \in BOOLEAN : InboundStart(h, ev, downloaded)
        \/ InboundSteps(h)
        \/ \E subType \in {"image", "audio"} : FileStart(h, "j1", subType, TRUE)
        \/ FileSteps(h)
        \/ SyncStart(h)
        \/ SyncSteps(h)

SpecKinds == Init /\ [][NextKinds]_vars

\* C35: every stored message and every push has a kind of the enumeration
\* chat, image, sticker, video, audio, document, and none has kind ptt.
C35_KindInEnum ==
    /\ \A jid \in Jids : \A i \in 1..Len(chatsFile[jid]) :
          SubTypeOrChat(chatsFile[jid][i].subType) \in Kinds
    /\ \A k \in 1..Len(pushed) : SubTypeOrChat(pushed[k].subType) \in Kinds

(***************************************************************************)
(* SpecDeleteStored: delete requests on a conversation whose stored list   *)
(* already holds two messages of an earlier session.                       *)
(***************************************************************************)
StoredChats ==
    [EmptyChats EXCEPT !["j1"] = << Msg(IdMsg456, "chat", TxtHiAll, 0, "sent", FALSE, FALSE),
                                    Msg(IdOther, "chat", TxtOk, 0, "received", FALSE, FALSE) >>]

InitStored ==
    /\ chatsFile = StoredChats
    /\ stateFile = DefaultState
    /\ provider = [j \in Jids |-> {}]
    /\ pushed = <<>>
    /\ hs = [h \in Handlers |-> Idle]
    /\ now = 0
    /\ nextId = 1
    /\ ops = 0
    /\ phoneSends = 0
    /\ lastSentSyncByChat = [j \in Jids |-> 0]
    /\ lastSet = stateFile.chatModes
    /\ envFile = <<>>

SpecDeleteStored == InitStored /\ [][NextDelete]_vars

\* C36: the write of a delete request removes at most one message from the
\* list it read, and a request that matches nothing writes nothing and is
\* answered 'not found'.
C36_DeleteRemovesAtMostOne ==
    [][\A h \in Handlers :
         (hs[h].pc \in {"d_w", "d_p_w"} /\ hs'[h].pc # hs[h].pc) =>
            LET jid == hs[h].jid
                before == hs[h].snap[jid]
            IN IF chatsFile' # chatsFile
               THEN Len(chatsFile'[jid]) >= Len(before) - 1
               ELSE hs'[h].pc = "done" => ~hs'[h].inserted]_vars

\* Handler h asked the LLM for an automatic reply to its event.
AutoLlmCalled(h) == \E g \in {"accepted", "rejected"} : <<"inbound", "llm", g>> \in hs[h].fx

\* Handler h sent an automatic reply for its event to the provider.
AutoReplySent(h) == \E g \in {"accepted", "rejected"} : <<"inbound", "send", g>> \in hs[h].fx

\* C37: on a Full-AI conversation, two handler invocations for the same
\* inbound event (same id) do not both call the LLM and do not both send
\* an automatic reply.
C37_OneReplyPerEvent ==
    \A h \in Handlers : \A g \in Handlers \ {h} :
        (hs[h].ev # NoEvent /\ hs[h].ev = hs[g].ev) =>
            /\ ~(AutoLlmCalled(h) /\ AutoLlmCalled(g))
            /\ ~(AutoReplySent(h) /\ AutoReplySent(g))

\* C38: the handler of an inbound media event (image, sticker, video,
\* audio, voice note, document) never asks the LLM for a reply and never
\* sends one, whether the download succeeded or failed.
C38_NoReplyToMedia ==
    \A h \in Handlers :
        hs[h].ev.type \in MediaTypes => ~AutoLlmCalled(h) /\ ~AutoReplySent(h)

\* C39: the write of an accept or of a delete on one conversation leaves
\* the stored list of every other conversation as it was.
C39_OtherChatsUnchanged ==
    [][\A h \in Handlers :
         (hs[h].pc \in {"a_w", "d_w", "d_p_w"} /\ hs'[h].pc # hs[h].pc) =>
            \A j \in Jids \ {hs[h].jid} : chatsFile'[j] = chatsFile[j]]_vars

\* C40: the record the inbound handler builds for a non-media event that
\* has text of its own carries that text, never the body of the message
\* the event quotes.
C40_OwnTextStored ==
    \A h \in Handlers :
        (/\ hs[h].ev # NoEvent
         /\ hs[h].ev.type \notin MediaTypes
         /\ Trim(hs[h].ev.body) # <<>>
         /\ hs[h].refreshed = <<>> /\ hs[h].referenced = <<>>
         /\ hs[h].msg.id = hs[h].ev.id)
          => hs[h].msg.content = Trim(hs[h].ev.body)
====
